---- MODULE Spec2Model ----
(***************************************************************************)
(* State-machine model of the ELD route planner's REST layer:             *)
(*   eld_system/models.py       the stored tables and their constraints   *)
(*   eld_system/serializers.py  input validation                          *)
(*   eld_system/views.py        TripViewSet, TripPlanningView,            *)
(*                              ELDLogSheetViewSet                        *)
(*   eld_system/admin.py        TripAdmin (the only working way to insert *)
(*                              a Trip row)                               *)
(*                                                                         *)
(* Times are minutes since midnight of day 0; a date is a day number.     *)
(* Decimal(4,2) hour columns are held in hundredths of an hour.           *)
(* A table is a function from the primary keys in use to the rows, or a   *)
(* set of rows where a key is part of the row.                            *)
(***************************************************************************)
EXTENDS Integers, Sequences, FiniteSets, TLC

VARIABLES
    now,          \* the wall clock (datetime.now() / timezone.now()), minutes
    trips,        \* Trip table: pk -> row
    logSheets,    \* ELDLogSheet table (set of rows; (driver, date) unique)
    waypoints,    \* RouteWaypoint table
    fuelStops,    \* FuelStop table
    restBreaks,   \* RestBreak table
    dutyPeriods,  \* DutyStatusPeriod table
    plan,         \* the requests in flight: slot -> position and data (plan-trip;
                  \* start_trip in SpecStartRace)
    resp,         \* the response of the last request to the trips / eld-logs endpoints
    gen,          \* position of the generator walk (SpecPlanner only)
    tripSeq,      \* the last value handed out by Trip's AutoField sequence
    cycles,       \* HOSCycleTracking table: pk -> row
    driverNumbers,   \* Driver table: pk -> driver_number
    vehicleNumbers,  \* Vehicle table: pk -> vehicle_number
    users,        \* auth.User table: username -> row
    tokens,       \* knox AuthToken table (set of rows)
    tokenSeq,     \* how many tokens AuthToken.objects.create has handed out
    shippers,     \* Shipper table (set of pks)
    loads,        \* Load table: pk -> shipper
    request       \* the last request the token layer saw: endpoint, header, body

vars == <<now, trips, logSheets, waypoints, fuelStops, restBreaks, dutyPeriods,
          plan, resp, gen, tripSeq, cycles, driverNumbers, vehicleNumbers,
          users, tokens, tokenSeq, shippers, loads, request>>

db == <<trips, logSheets, waypoints, fuelStops, restBreaks, dutyPeriods>>

\* the tables no trip, log-sheet or planning request writes
ext == <<cycles, driverNumbers, vehicleNumbers>>

\* the tables of the token layer
auth == <<users, tokens, tokenSeq>>

\* what a view of the trips, eld-logs, hos-cycles, drivers or vehicles endpoints
\* never writes; the token layer runs before the view
outer == <<users, tokens, tokenSeq, shippers, loads, request>>

----------------------------------------------------------------------------
(* Bounds *)

MaxDay == 1          \* the clock runs over days 0..MaxDay
MaxTrips == 2        \* Trip rows that can be inserted
MaxMiles == 3000     \* largest total_estimated_miles tried on the generators
MaxPeriods == 2      \* DutyStatusPeriod rows that can be inserted by hand
MaxCycles == 2       \* HOSCycleTracking rows that can be inserted
MaxDrivers == 3      \* Driver rows the table can grow to
MaxVehicles == 4     \* Vehicle rows the table can grow to
MaxTokens == 2       \* tokens that can be issued
MaxUsers == 2        \* usernames tried at registration and login

----------------------------------------------------------------------------
(* Time *)

MinutesPerDay == 1440

\* datetime.date(): the calendar day of a timestamp
DateOf(t) == t \div MinutesPerDay

\* datetime.combine(date, datetime.min.time()): midnight of a date
MidnightOf(d) == d * MinutesPerDay

NoTime == 0 - 1      \* NULL in a nullable DateTimeField
NoRef == 0           \* NULL in a nullable ForeignKey

----------------------------------------------------------------------------
(* Stored drivers and vehicles (fixed in this model) *)

Drivers == {1}               \* pks of the Driver rows
DriverIds == {1, 2}          \* driver_id values a request may carry (2: no such row)

VEHICLE_TYPES == {"tractor", "trailer"}

\* Vehicle rows: pk -> vehicle_type.  The column is a CharField whose choices
\* are checked by forms and serializers only, not by the database; the
\* create_admin command, available_trucks and the planning input serializer
\* all take rows stored as 'truck' to exist, so one is kept here.
VehicleTypeOf == (1 :> "tractor") @@ (2 :> "trailer") @@ (3 :> "truck")

Vehicles == DOMAIN VehicleTypeOf
VehicleIds == {1, 2, 3, 4}   \* vehicle ids a request may carry (4: no such row)

STATUS_CHOICES == {"planned", "in_progress", "completed", "cancelled"}

\* driver_number / vehicle_number of the stored rows, as a number each: the
\* rows above carry distinct identifiers (the columns are unique=True)
InitialDriverNumbers == [d \in Drivers |-> d]
InitialVehicleNumbers == [v \in Vehicles |-> v]

\* a password is told apart by its length only
UserRow(password, email) == [password |-> password, email |-> email]

\* every Driver row has its User (OneToOneField): the user of driver 1
InitialUsers == (1 :> UserRow(8, 1))

\* no request has passed the token layer yet
NoBody ==
    [username |-> 0, email |-> 0, password |-> 0, password_confirm |-> 0,
     driver_number |-> 0, other |-> FALSE]

NoRequestSeen == [endpoint |-> "none", header |-> 0, body |-> NoBody]

\* one shipper with one load
InitialShippers == {1}
InitialLoads == (1 :> 1)

----------------------------------------------------------------------------
(* Trip rows *)

TripIds == 1..MaxTrips

TripRow(d, tractor, trailer, st, start, miles, cycle) ==
    [driver |-> d, tractor |-> tractor, trailer |-> trailer, status |-> st,
     load |-> NoRef, start_time |-> start, actual_end_time |-> NoTime,
     total_estimated_miles |-> miles, current_cycle_used_hours |-> cycle]

\* the next AutoField value: a sequence, never handed out twice
NextTripId == tripSeq + 1

NoResp == [op |-> "none", trip |-> 0, code |-> 0]

Replied(op, t, code) == [op |-> op, trip |-> t, code |-> code]

----------------------------------------------------------------------------
(* ELDLogSheet rows *)

\* ELDLogSheet.objects.create(trip=, driver=, date=) with the column defaults
LogRow(t, d, date, off, sb, drv, onduty, duty, miles) ==
    [trip |-> t, driver |-> d, date |-> date,
     total_off_duty_time |-> off, total_sleeper_berth_time |-> sb,
     total_driving_time |-> drv, total_on_duty_time |-> onduty,
     total_duty_time |-> duty, miles_driven |-> miles,
     hos_violation |-> FALSE]

DefaultLogRow(t, d, date) == LogRow(t, d, date, 0, 0, 0, 0, 0, 0)

\* unique_together = ['driver', 'date']: an insert of a second row with the
\* same pair raises IntegrityError
LogSheetExists(sheets, d, date) == \E l \in sheets : l.driver = d /\ l.date = date

----------------------------------------------------------------------------
(* The planner's generators, as functions of the Trip row *)

FuelInterval == 1000
DefaultFuelMiles == 1000
DefaultLogMiles == 500

\* _generate_route_waypoints: three 'route' waypoints, sequence 1..3
GenerateRouteWaypoints(t) ==
    { [trip |-> t, sequence |-> 1, location_name |-> "current_location", waypoint_type |-> "route"],
      [trip |-> t, sequence |-> 2, location_name |-> "pickup_location", waypoint_type |-> "route"],
      [trip |-> t, sequence |-> 3, location_name |-> "dropoff_location", waypoint_type |-> "route"] }

\* estimated_miles = trip.total_estimated_miles or 1000
EstimatedMiles(row) ==
    IF row.total_estimated_miles = 0 THEN DefaultFuelMiles ELSE row.total_estimated_miles

\* fuel_stops_needed = (estimated_miles // 1000) + 1
FuelStopsNeeded(row) == (EstimatedMiles(row) \div FuelInterval) + 1

\* TripSerializer.get_estimated_fuel_stops_count
EstimatedFuelStopsCount(row) ==
    IF row.total_estimated_miles > 0
    THEN (row.total_estimated_miles \div FuelInterval) + 1
    ELSE 0

\* miles_from_start of iteration i of the loop (i = 0 .. fuel_stops_needed - 1)
MilesFromStart(row, i) ==
    IF (i + 1) * FuelInterval > EstimatedMiles(row)
    THEN EstimatedMiles(row)
    ELSE (i + 1) * FuelInterval

\* _generate_fuel_stops: one row per iteration; location is "Fuel Stop {i + 1}";
\* estimated_time = start_time + timedelta(hours=miles_from_start/60), that is
\* miles_from_start minutes
GenerateFuelStops(t, row) ==
    { [trip |-> t, location |-> i + 1,
       miles_from_start |-> MilesFromStart(row, i),
       estimated_time |-> row.start_time + MilesFromStart(row, i)]
      : i \in 0..(FuelStopsNeeded(row) - 1) }

\* rest breaks scheduled from the end of the 30-minute break instead of its start
GenerateRestBreaks_FromBreakEnd(t, row) ==
    { [trip |-> t, break_type |-> "30_min",
       scheduled_start |-> row.start_time + 510, scheduled_end |-> row.start_time + 540],
      [trip |-> t, break_type |-> "10_hour",
       scheduled_start |-> row.start_time + 870, scheduled_end |-> row.start_time + 1470] }

\* _generate_rest_breaks: a 30_min break at +8h..+8.5h and a 10_hour rest at +14h..+24h
GenerateRestBreaks(t, row) ==
    { [trip |-> t, break_type |-> "30_min",
       scheduled_start |-> row.start_time + 480, scheduled_end |-> row.start_time + 510],
      [trip |-> t, break_type |-> "10_hour",
       scheduled_start |-> row.start_time + 840, scheduled_end |-> row.start_time + 1440] }

\* _generate_eld_log_sheets: one sheet for the start date with literal totals
GenerateLogSheet(t, row) ==
    LogRow(t, row.driver, DateOf(row.start_time), 400, 1000, 800, 200, 1000,
           IF row.total_estimated_miles = 0 THEN DefaultLogMiles
           ELSE row.total_estimated_miles)

\* _generate_duty_status_periods: two literal periods from midnight of the sheet
GenerateDutyStatusPeriods(sheet) ==
    LET start == MidnightOf(sheet.date) IN
    { [driver |-> sheet.driver, date |-> sheet.date, duty_status |-> "off_duty",
       start_time |-> start, end_time |-> start + 360,
       vehicle_moved |-> FALSE, grid_start_minute |-> 0, grid_end_minute |-> 360],
      [driver |-> sheet.driver, date |-> sheet.date, duty_status |-> "on_duty",
       start_time |-> start + 360, end_time |-> start + 390,
       vehicle_moved |-> FALSE, grid_start_minute |-> 360, grid_end_minute |-> 390] }

----------------------------------------------------------------------------
(* TripViewSet: start_trip, complete_trip, partial_update *)

\* base settings leave ATOMIC_REQUESTS at Django's default: each save commits
AtomicRequests == FALSE

\* a start guard that only refuses a trip that is already running
StartAllowed_AnyButRunning(st) == st # "in_progress"

\* start_trip's guard: trip.status != 'planned' is answered 400
StartAllowed(st) == st = "planned"

\* complete_trip's guard: trip.status != 'in_progress' is answered 400
CompleteAllowed(st) == st = "in_progress"

\* POST /trips/{t}/start_trip/
StartTrip(t) ==
    /\ UNCHANGED <<now, waypoints, fuelStops, restBreaks, dutyPeriods, plan, gen, tripSeq, ext>>
    /\ IF t \notin DOMAIN trips
       THEN resp' = Replied("start_trip", t, 404) /\ UNCHANGED <<trips, logSheets>>
       ELSE IF ~StartAllowed(trips[t].status)
       THEN resp' = Replied("start_trip", t, 400) /\ UNCHANGED <<trips, logSheets>>
       ELSE LET saved == [trips EXCEPT ![t].status = "in_progress",
                                        ![t].start_time = now]
                d == trips[t].driver
            IN  IF LogSheetExists(logSheets, d, DateOf(now))
                THEN \* IntegrityError after trip.save(): not caught by the view
                     /\ resp' = Replied("start_trip", t, 500)
                     /\ trips' = IF AtomicRequests THEN trips ELSE saved
                     /\ logSheets' = logSheets
                ELSE /\ resp' = Replied("start_trip", t, 200)
                     /\ trips' = saved
                     /\ logSheets' = logSheets \cup {DefaultLogRow(t, d, DateOf(now))}

\* POST /trips/{t}/complete_trip/
CompleteTrip(t) ==
    /\ UNCHANGED <<now, logSheets, waypoints, fuelStops, restBreaks, dutyPeriods, plan, gen, tripSeq, ext>>
    /\ IF t \notin DOMAIN trips
       THEN resp' = Replied("complete_trip", t, 404) /\ UNCHANGED trips
       ELSE IF ~CompleteAllowed(trips[t].status)
       THEN resp' = Replied("complete_trip", t, 400) /\ UNCHANGED trips
       ELSE /\ resp' = Replied("complete_trip", t, 200)
            /\ trips' = [trips EXCEPT ![t].status = "completed",
                                      ![t].actual_end_time = now]

\* PATCH /trips/{t}/ with {"status": st}: TripSerializer leaves status writable,
\* the ChoiceField accepts every member of STATUS_CHOICES
TripPartialUpdate(t, st) ==
    /\ st \in STATUS_CHOICES
    /\ UNCHANGED <<now, logSheets, waypoints, fuelStops, restBreaks, dutyPeriods, plan, gen, tripSeq, ext>>
    /\ IF t \notin DOMAIN trips
       THEN resp' = Replied("partial_update", t, 404) /\ UNCHANGED trips
       ELSE /\ resp' = Replied("partial_update", t, 200)
            /\ trips' = [trips EXCEPT ![t].status = st]

\* Django admin, Trip add form: the model validators and limit_choices_to
\* hold (tractor is a 'tractor'), there is no one-trip-per-day check
AdminAddTrip(d, tractor, start) ==
    /\ tripSeq < MaxTrips
    /\ d \in Drivers
    /\ tractor \in Vehicles /\ VehicleTypeOf[tractor] = "tractor"
    /\ trips' = trips @@ (NextTripId :> TripRow(d, tractor, NoRef, "planned", start, 0, 0))
    /\ tripSeq' = NextTripId
    /\ resp' = Replied("admin_add", NextTripId, 200)
    /\ UNCHANGED <<now, logSheets, waypoints, fuelStops, restBreaks, dutyPeriods, plan, gen, ext>>

\* POST /eld-logs/ {driver_id, trip_id, date}: ELDLogSheetSerializer.create;
\* Driver.DoesNotExist, Trip.DoesNotExist and IntegrityError are not caught
EldLogCreate(d, t, date) ==
    /\ UNCHANGED <<now, trips, waypoints, fuelStops, restBreaks, dutyPeriods, plan, gen, tripSeq, ext>>
    /\ IF d \notin Drivers \/ t \notin DOMAIN trips \/ LogSheetExists(logSheets, d, date)
       THEN resp' = Replied("eld_log_create", t, 500) /\ UNCHANGED logSheets
       ELSE /\ resp' = Replied("eld_log_create", t, 201)
            /\ logSheets' = logSheets \cup {DefaultLogRow(t, d, date)}

\* the clock passes midnight
Tick ==
    /\ DateOf(now) < MaxDay
    /\ now' = now + MinutesPerDay
    /\ UNCHANGED <<db, plan, resp, gen, tripSeq, ext>>

----------------------------------------------------------------------------
(* TripPlanningInputSerializer: validation of a plan-trip request *)

CycleMaxHundredths == 7000   \* max_value=70, two decimal places

PlanRequest(d, truck, trailer, cycle) ==
    [driver_id |-> d, truck_id |-> truck, trailer_id |-> trailer,
     current_cycle_used_hours |-> cycle]

NoRequest == PlanRequest(0, 0, 0, 0)

\* the field-level pass: DecimalField(min_value=0, max_value=70); every failing
\* field is reported, keyed by its name
FieldErrors(req) ==
    IF req.current_cycle_used_hours < 0 \/ req.current_cycle_used_hours > CycleMaxHundredths
    THEN {"current_cycle_used_hours"}
    ELSE {}

\* validate(): runs only when the field-level pass found nothing; the first
\* failing lookup raises and ends it
ObjectErrors(req) ==
    IF req.driver_id \notin Drivers THEN {"Driver does not exist"}
    ELSE IF req.truck_id \notin Vehicles THEN {"Tractor does not exist"}
    ELSE IF VehicleTypeOf[req.truck_id] # "truck" THEN {"Selected vehicle is not a truck"}
    ELSE IF req.trailer_id # NoRef /\ req.trailer_id \notin Vehicles
         THEN {"Trailer does not exist"}
    ELSE IF req.trailer_id # NoRef /\ VehicleTypeOf[req.trailer_id] # "trailer"
         THEN {"Selected vehicle is not a trailer"}
    ELSE {}

\* serializer.is_valid() / serializer.errors
ValidationErrors(req) ==
    IF FieldErrors(req) # {} THEN FieldErrors(req) ELSE ObjectErrors(req)

----------------------------------------------------------------------------
(* TripPlanningView.post, one slot per request in flight *)

Slots == {1, 2}

Idle == [pc |-> "idle", req |-> NoRequest, code |-> 0, errors |-> {}, today |-> 0, trip |-> 0]

\* Trip.objects.filter(driver_id=, start_time__date=today).exists()
ExistingTripToday(d, today) ==
    \E t \in DOMAIN trips : trips[t].driver = d /\ DateOf(trips[t].start_time) = today

\* ELDLogSheet.objects.filter(driver_id=, date=today).exists()
ExistingLogToday(d, today) == LogSheetExists(logSheets, d, today)

\* a check that looks at the trips only
ConflictToday_TripsOnly(d, today) == ExistingTripToday(d, today)

\* the one-trip-per-driver-per-day check
ConflictToday(d, today) == ExistingTripToday(d, today) \/ ExistingLogToday(d, today)

\* the names a Trip(...) constructor accepts: the model's fields and their attnames
TripModelFields ==
    {"id", "trip_id", "driver", "driver_id", "tractor", "tractor_id", "trailer",
     "trailer_id", "load", "load_id", "current_location", "current_lat",
     "current_lng", "pickup_location", "pickup_lat", "pickup_lng",
     "dropoff_location", "dropoff_lat", "dropoff_lng", "current_cycle_used_hours",
     "start_time", "estimated_end_time", "actual_end_time", "total_estimated_miles",
     "total_actual_miles", "status", "created_at", "updated_at"}

\* the keyword arguments post() passes to Trip.objects.create
PlanTripCreateKwargs ==
    {"driver_id", "truck_id", "trailer_id", "load_id", "current_location",
     "pickup_location", "dropoff_location", "current_cycle_used_hours",
     "start_time", "status"}

\* Model.__init__ raises TypeError on keyword arguments that name no field
TripCreateRaises == PlanTripCreateKwargs \ TripModelFields # {}

\* the columns and attributes of DutyStatusPeriod
DutyPeriodModelFields ==
    {"id", "log_sheet", "log_sheet_id", "duty_status", "start_time", "end_time",
     "location", "city", "state", "activity_description", "vehicle_moved",
     "grid_start_minute", "grid_end_minute"}

\* DutyStatusPeriodSerializer.Meta.fields that are not declared on the serializer
DutyPeriodSerializerModelFields ==
    {"id", "duty_status", "start_time", "end_time", "location", "city", "state",
     "activity_description", "vehicle_moved", "grid_start_minute",
     "grid_end_minute", "start_latitude", "start_longitude", "end_latitude",
     "end_longitude"}

\* a ModelSerializer raises ImproperlyConfigured when it builds a field the
\* model does not have: serializing a sheet that has duty periods raises
DutyPeriodSerializerRaises == DutyPeriodSerializerModelFields \ DutyPeriodModelFields # {}

\* lines 648-653: validation, outside the transaction
PlanValidate(r, req) ==
    /\ plan[r].pc = "idle"
    /\ plan' = [plan EXCEPT ![r] =
                  IF ValidationErrors(req) = {}
                  THEN [Idle EXCEPT !.pc = "validated", !.req = req]
                  ELSE [Idle EXCEPT !.pc = "done", !.req = req, !.code = 400,
                                    !.errors = ValidationErrors(req)]]
    /\ UNCHANGED <<now, db, resp, gen, tripSeq, ext>>

\* lines 656-667: enter the transaction, read today, look for a trip or sheet of today
PlanCheck(r) ==
    /\ plan[r].pc = "validated"
    /\ LET today == DateOf(now) IN
       plan' = [plan EXCEPT ![r] =
                  IF ConflictToday(plan[r].req.driver_id, today)
                  THEN [@ EXCEPT !.pc = "done", !.code = 400, !.today = today,
                                 !.errors = {"Another trip has already been setup for today"}]
                  ELSE [@ EXCEPT !.pc = "checked", !.today = today]]
    /\ UNCHANGED <<now, db, resp, gen, tripSeq, ext>>

\* lines 669-711: create the Trip and its children, build the response, commit;
\* an exception leaves the atomic block (rollback) and is answered 400 or 500
PlanCreate(r) ==
    /\ plan[r].pc = "checked"
    /\ UNCHANGED <<now, resp, gen, ext>>
    /\ LET req == plan[r].req
           t == NextTripId
           row == TripRow(req.driver_id, req.truck_id, req.trailer_id, "planned", now, 0,
                          req.current_cycle_used_hours)
           sheet == GenerateLogSheet(t, row)
       IN  IF TripCreateRaises
           THEN \* TypeError from Trip(...): nothing was written
                /\ plan' = [plan EXCEPT ![r] = [@ EXCEPT !.pc = "done", !.code = 500,
                                                !.errors = {"Internal server error"}]]
                /\ UNCHANGED <<db, tripSeq>>
           ELSE IF LogSheetExists(logSheets, sheet.driver, sheet.date)
           THEN \* IntegrityError on unique_together: rolled back
                /\ plan' = [plan EXCEPT ![r] = [@ EXCEPT !.pc = "done", !.code = 400,
                                                !.errors = {"IntegrityError"}]]
                /\ UNCHANGED <<db, tripSeq>>
           ELSE IF DutyPeriodSerializerRaises
           THEN \* ImproperlyConfigured while the response is built: rolled back
                /\ plan' = [plan EXCEPT ![r] = [@ EXCEPT !.pc = "done", !.code = 500,
                                                !.errors = {"Internal server error"}]]
                /\ UNCHANGED <<db, tripSeq>>
           ELSE /\ plan' = [plan EXCEPT ![r] = [@ EXCEPT !.pc = "done", !.code = 201,
                                                !.trip = t]]
                /\ trips' = trips @@ (t :> row)
                /\ tripSeq' = t
                /\ waypoints' = waypoints \cup GenerateRouteWaypoints(t)
                /\ fuelStops' = fuelStops \cup GenerateFuelStops(t, row)
                /\ restBreaks' = restBreaks \cup GenerateRestBreaks(t, row)
                /\ logSheets' = logSheets \cup {sheet}
                /\ dutyPeriods' = dutyPeriods \cup GenerateDutyStatusPeriods(sheet)

----------------------------------------------------------------------------
(* The API as a whole *)

\* the requests tried on the plan-trip endpoint in Spec
PlanInputs ==
    { PlanRequest(1, 3, NoRef, 0), PlanRequest(1, 1, NoRef, 0), PlanRequest(2, 3, NoRef, 0) }

GenOff == [pc |-> "off", trip |-> 0]

Init ==
    /\ now = 0
    /\ trips = <<>>
    /\ logSheets = {}
    /\ waypoints = {}
    /\ fuelStops = {}
    /\ restBreaks = {}
    /\ dutyPeriods = {}
    /\ plan = [r \in Slots |-> Idle]
    /\ resp = NoResp
    /\ gen = GenOff
    /\ tripSeq = 0
    /\ cycles = <<>>
    /\ driverNumbers = InitialDriverNumbers
    /\ vehicleNumbers = InitialVehicleNumbers
    /\ users = InitialUsers
    /\ tokens = {}
    /\ tokenSeq = 0
    /\ shippers = InitialShippers
    /\ loads = InitialLoads
    /\ request = NoRequestSeen

\* one plan-trip request in flight beside the trips and eld-logs endpoints
Next ==
    \/ \E t \in TripIds : StartTrip(t) /\ UNCHANGED outer
    \/ \E t \in TripIds : CompleteTrip(t) /\ UNCHANGED outer
    \/ \E t \in TripIds, st \in STATUS_CHOICES : TripPartialUpdate(t, st) /\ UNCHANGED outer
    \/ \E d \in Drivers, v \in Vehicles : AdminAddTrip(d, v, now) /\ UNCHANGED outer
    \/ \E d \in DriverIds, t \in TripIds : EldLogCreate(d, t, DateOf(now)) /\ UNCHANGED outer
    \/ \E req \in PlanInputs : PlanValidate(1, req) /\ UNCHANGED outer
    \/ PlanCheck(1) /\ UNCHANGED outer
    \/ PlanCreate(1) /\ UNCHANGED outer
    \/ Tick /\ UNCHANGED outer

Spec == Init /\ [][Next]_vars

----------------------------------------------------------------------------
(* Two plan-trip requests in flight at once *)

NextRace ==
    \/ \E r \in Slots, req \in PlanInputs : PlanValidate(r, req) /\ UNCHANGED outer
    \/ \E r \in Slots : PlanCheck(r) /\ UNCHANGED outer
    \/ \E r \in Slots : PlanCreate(r) /\ UNCHANGED outer
    \/ \E d \in Drivers, v \in Vehicles : AdminAddTrip(d, v, now) /\ UNCHANGED outer
    \/ \E t \in TripIds : StartTrip(t) /\ UNCHANGED outer
    \/ \E d \in DriverIds, t \in TripIds : EldLogCreate(d, t, DateOf(now)) /\ UNCHANGED outer
    \/ Tick /\ UNCHANGED outer

SpecRace == Init /\ [][NextRace]_vars

----------------------------------------------------------------------------
(* The input serializer applied to every request of a bounded set *)

CycleInputs == {0 - 1, 0, CycleMaxHundredths, CycleMaxHundredths + 1}

AllPlanInputs ==
    { PlanRequest(d, truck, trailer, c) :
        d \in DriverIds, truck \in VehicleIds, trailer \in {NoRef} \cup VehicleIds,
        c \in CycleInputs }

NextValidate == \E req \in AllPlanInputs : PlanValidate(1, req) /\ UNCHANGED outer

SpecValidate == Init /\ [][NextValidate]_vars

----------------------------------------------------------------------------
(* The generators applied, in post()'s order, to a Trip row of a bounded set *)

PlannerStarts == {0, 360, 1380}

InitPlanner ==
    /\ \E m \in 0..MaxMiles, st \in PlannerStarts :
         /\ trips = (1 :> TripRow(1, 1, NoRef, "planned", st, m, 0))
         /\ now = st
    /\ logSheets = {}
    /\ waypoints = {}
    /\ fuelStops = {}
    /\ restBreaks = {}
    /\ dutyPeriods = {}
    /\ plan = [r \in Slots |-> Idle]
    /\ resp = NoResp
    /\ gen = [pc |-> "waypoints", trip |-> 1]
    /\ tripSeq = 1
    /\ cycles = <<>>
    /\ driverNumbers = InitialDriverNumbers
    /\ vehicleNumbers = InitialVehicleNumbers
    /\ users = InitialUsers
    /\ tokens = {}
    /\ tokenSeq = 0
    /\ shippers = InitialShippers
    /\ loads = InitialLoads
    /\ request = NoRequestSeen

GenWaypoints ==
    /\ gen.pc = "waypoints"
    /\ waypoints' = waypoints \cup GenerateRouteWaypoints(gen.trip)
    /\ gen' = [gen EXCEPT !.pc = "fuel_stops"]
    /\ UNCHANGED <<now, trips, logSheets, fuelStops, restBreaks, dutyPeriods, plan, resp, tripSeq, ext>>

GenFuelStops ==
    /\ gen.pc = "fuel_stops"
    /\ fuelStops' = fuelStops \cup GenerateFuelStops(gen.trip, trips[gen.trip])
    /\ gen' = [gen EXCEPT !.pc = "rest_breaks"]
    /\ UNCHANGED <<now, trips, logSheets, waypoints, restBreaks, dutyPeriods, plan, resp, tripSeq, ext>>

GenRestBreaks ==
    /\ gen.pc = "rest_breaks"
    /\ restBreaks' = restBreaks \cup GenerateRestBreaks(gen.trip, trips[gen.trip])
    /\ gen' = [gen EXCEPT !.pc = "log_sheets"]
    /\ UNCHANGED <<now, trips, logSheets, waypoints, fuelStops, dutyPeriods, plan, resp, tripSeq, ext>>

GenLogSheets ==
    /\ gen.pc = "log_sheets"
    /\ LET sheet == GenerateLogSheet(gen.trip, trips[gen.trip]) IN
       /\ logSheets' = logSheets \cup {sheet}
       /\ dutyPeriods' = dutyPeriods \cup GenerateDutyStatusPeriods(sheet)
    /\ gen' = [gen EXCEPT !.pc = "done"]
    /\ UNCHANGED <<now, trips, waypoints, fuelStops, restBreaks, plan, resp, tripSeq, ext>>

NextPlanner ==
    \/ GenWaypoints /\ UNCHANGED outer
    \/ GenFuelStops /\ UNCHANGED outer
    \/ GenRestBreaks /\ UNCHANGED outer
    \/ GenLogSheets /\ UNCHANGED outer

SpecPlanner == InitPlanner /\ [][NextPlanner]_vars

----------------------------------------------------------------------------
(* ELDLogSheetViewSet and DutyStatusPeriodViewSet: log sheets and their periods
   written by hand *)

\* the rule of a day: more than 11 h driving or more than 14 h on duty
DrivingLimit == 1100
DutyLimit == 1400

\* ELDLogSheetSerializer.get_hos_compliant
HosCompliant(l) ==
    IF l.total_driving_time > DrivingLimit THEN FALSE
    ELSE IF l.total_duty_time > DutyLimit THEN FALSE
    ELSE ~l.hos_violation

\* the sheet of a driver and date (unique_together makes it one)
SheetOf(d, date) == CHOOSE l \in logSheets : l.driver = d /\ l.date = date

\* the DutyStatusPeriod rows whose log_sheet is the sheet of (d, date)
PeriodsOfSheet(d, date) == { p \in dutyPeriods : p.driver = d /\ p.date = date }

\* a DutyStatusPeriod row as a form or request gives it
PeriodRow(d, date, st, start, end) ==
    [driver |-> d, date |-> date, duty_status |-> st,
     start_time |-> start, end_time |-> end, vehicle_moved |-> TRUE,
     grid_start_minute |-> start - MidnightOf(date),
     grid_end_minute |-> end - MidnightOf(date)]

\* POST /eld-logs/ {driver_id, trip_id, date, total_driving_time, hos_violation}:
\* every model column but id, created_at, updated_at is writable; the lookups and
\* the unique_together insert raise uncaught
EldLogCreateWith(d, t, date, drv, flag) ==
    /\ UNCHANGED <<now, trips, waypoints, fuelStops, restBreaks, dutyPeriods, plan, gen, tripSeq, ext>>
    /\ IF d \notin Drivers \/ t \notin DOMAIN trips \/ LogSheetExists(logSheets, d, date)
       THEN resp' = Replied("eld_log_create", t, 500) /\ UNCHANGED logSheets
       ELSE /\ resp' = Replied("eld_log_create", t, 201)
            /\ logSheets' = logSheets \cup
                  { [DefaultLogRow(t, d, date) EXCEPT !.total_driving_time = drv,
                                                      !.hos_violation = flag] }

\* PATCH /eld-logs/{id}/ {hos_violation}: update() saves the row, then the
\* response renders duty_periods, which raises when the sheet has any
EldLogPartialUpdate(d, date, flag) ==
    /\ UNCHANGED <<now, trips, waypoints, fuelStops, restBreaks, dutyPeriods, plan, gen, tripSeq, ext>>
    /\ IF ~LogSheetExists(logSheets, d, date)
       THEN resp' = Replied("eld_log_update", 0, 404) /\ UNCHANGED logSheets
       ELSE LET l == SheetOf(d, date)
                saved == (logSheets \ {l}) \cup {[l EXCEPT !.hos_violation = flag]}
            IN  IF DutyPeriodSerializerRaises /\ PeriodsOfSheet(d, date) # {}
                THEN /\ resp' = Replied("eld_log_update", l.trip, 500)
                     /\ logSheets' = IF AtomicRequests THEN logSheets ELSE saved
                ELSE /\ resp' = Replied("eld_log_update", l.trip, 200)
                     /\ logSheets' = saved

\* POST /duty-periods/ {log_sheet_id, duty_status, start_time, end_time, ...}:
\* the serializer's fields are built first, and building them raises
DutyPeriodCreate(d, date, st, start, end) ==
    /\ UNCHANGED <<now, trips, logSheets, waypoints, fuelStops, restBreaks, plan, gen, tripSeq, ext>>
    /\ IF DutyPeriodSerializerRaises \/ ~LogSheetExists(logSheets, d, date)
       THEN resp' = Replied("duty_period_create", 0, 500) /\ UNCHANGED dutyPeriods
       ELSE /\ resp' = Replied("duty_period_create", 0, 201)
            /\ dutyPeriods' = dutyPeriods \cup {PeriodRow(d, date, st, start, end)}

\* Django admin, DutyStatusPeriod add form: the fields are checked one by one
\* (a log sheet, a status, two timestamps), never against the sheet's periods
AdminAddDutyPeriod(d, date, st, start, end) ==
    /\ Cardinality(dutyPeriods) < MaxPeriods
    /\ LogSheetExists(logSheets, d, date)
    /\ dutyPeriods' = dutyPeriods \cup {PeriodRow(d, date, st, start, end)}
    /\ resp' = Replied("admin_add_period", SheetOf(d, date).trip, 200)
    /\ UNCHANGED <<now, trips, logSheets, waypoints, fuelStops, restBreaks, plan, gen, tripSeq, ext>>

\* the values tried in the requests
DrivingInputs == {0, DrivingLimit, DrivingLimit + 50}
PeriodStatuses == {"off_duty", "driving"}
PeriodTimes == {0, 360, 720}

NextLogs ==
    \/ \E d \in Drivers, v \in Vehicles : AdminAddTrip(d, v, now) /\ UNCHANGED outer
    \/ \E d \in DriverIds, t \in TripIds, drv \in DrivingInputs, flag \in BOOLEAN :
          EldLogCreateWith(d, t, DateOf(now), drv, flag) /\ UNCHANGED outer
    \/ \E d \in Drivers, flag \in BOOLEAN : EldLogPartialUpdate(d, DateOf(now), flag) /\ UNCHANGED outer
    \/ \E d \in Drivers, st \in PeriodStatuses, a, b \in PeriodTimes :
          DutyPeriodCreate(d, DateOf(now), st, now + a, now + b) /\ UNCHANGED outer
    \/ \E d \in Drivers, st \in PeriodStatuses, a, b \in PeriodTimes :
          AdminAddDutyPeriod(d, DateOf(now), st, now + a, now + b) /\ UNCHANGED outer

SpecLogs == Init /\ [][NextLogs]_vars

----------------------------------------------------------------------------
(* HOSCycleTrackingViewSet: the 70-hour cycle records *)

CycleRow(d, start, total, remaining) ==
    [driver |-> d, cycle_start_date |-> start, total_cycle_hours |-> total,
     remaining_hours |-> remaining, restart_available |-> FALSE]

\* 70 - total, never below 0
RemainingOf(total) ==
    IF CycleMaxHundredths - total < 0 THEN 0 ELSE CycleMaxHundredths - total

\* the fields HOSCycleTrackingSerializer takes from a request: Meta.fields
\* without the read-only ones, the nested driver and the method fields
CycleSerializerWritableFields ==
    {"cycle_start_date", "cycle_end_date", "total_cycle_hours", "remaining_hours",
     "is_violation", "violation_type", "violation_details", "restart_available",
     "restart_start_time", "restart_end_time"}

\* create() inserts a row without driver_id: the NOT NULL column raises
\* IntegrityError, which nothing catches
CycleCreateRaises ==
    "driver" \notin CycleSerializerWritableFields
    /\ "driver_id" \notin CycleSerializerWritableFields

\* unique_together = ['driver', 'cycle_start_date']
CycleExists(d, start) ==
    \E c \in DOMAIN cycles : cycles[c].driver = d /\ cycles[c].cycle_start_date = start

\* MinValueValidator(0), MaxValueValidator(70) on total_cycle_hours
CycleTotalValid(total) == total >= 0 /\ total <= CycleMaxHundredths

\* POST /hos-cycles/
CycleCreate(start, total) ==
    /\ UNCHANGED <<now, db, plan, gen, tripSeq, driverNumbers, vehicleNumbers>>
    /\ IF ~CycleTotalValid(total)
       THEN resp' = Replied("cycle_create", 0, 400) /\ UNCHANGED cycles
       ELSE IF CycleCreateRaises
       THEN resp' = Replied("cycle_create", 0, 500) /\ UNCHANGED cycles
       ELSE /\ resp' = Replied("cycle_create", 0, 201)
            /\ cycles' = cycles @@
                  (Cardinality(DOMAIN cycles) + 1 :> CycleRow(NoRef, start, total, RemainingOf(total)))

\* Django admin, HOSCycleTracking add form, filled in with the hours that
\* remain of the 70; the form checks the validators and unique_together
AdminAddCycle(d, start, total) ==
    /\ Cardinality(DOMAIN cycles) < MaxCycles
    /\ d \in Drivers
    /\ CycleTotalValid(total)
    /\ ~CycleExists(d, start)
    /\ cycles' = cycles @@
          (Cardinality(DOMAIN cycles) + 1 :> CycleRow(d, start, total, RemainingOf(total)))
    /\ resp' = Replied("admin_add_cycle", 0, 200)
    /\ UNCHANGED <<now, db, plan, gen, tripSeq, driverNumbers, vehicleNumbers>>

\* PATCH /hos-cycles/{c}/ {total_cycle_hours} or {remaining_hours}: the named
\* column is written, the other is left as it was
CyclePartialUpdate(c, field, value) ==
    /\ field \in {"total_cycle_hours", "remaining_hours"}
    /\ UNCHANGED <<now, db, plan, gen, tripSeq, driverNumbers, vehicleNumbers>>
    /\ IF c \notin DOMAIN cycles
       THEN resp' = Replied("cycle_update", 0, 404) /\ UNCHANGED cycles
       ELSE IF field = "total_cycle_hours" /\ ~CycleTotalValid(value)
       THEN resp' = Replied("cycle_update", 0, 400) /\ UNCHANGED cycles
       ELSE /\ resp' = Replied("cycle_update", 0, 200)
            /\ cycles' = [cycles EXCEPT ![c][field] = value]

CycleIds == 1..MaxCycles
CycleTotals == {0, 3000, CycleMaxHundredths, CycleMaxHundredths + 100}

NextCycles ==
    \/ \E start \in 0..MaxDay, total \in CycleTotals : CycleCreate(start, total) /\ UNCHANGED outer
    \/ \E d \in Drivers, start \in 0..MaxDay, total \in CycleTotals : AdminAddCycle(d, start, total) /\ UNCHANGED outer
    \/ \E c \in CycleIds, field \in {"total_cycle_hours", "remaining_hours"}, v \in CycleTotals :
          CyclePartialUpdate(c, field, v) /\ UNCHANGED outer

SpecCycles == Init /\ [][NextCycles]_vars

----------------------------------------------------------------------------
(* Deleting a Trip: the on_delete rules of the rows that point at it *)

\* on_delete with the log sheets kept when their trip goes
OnDelete_LogSheetsKept ==
    [RouteWaypoint_trip |-> "CASCADE", FuelStop_trip |-> "CASCADE",
     RestBreak_trip |-> "CASCADE", ELDLogSheet_trip |-> "DO_NOTHING",
     DutyStatusPeriod_log_sheet |-> "CASCADE",
     Trip_driver |-> "CASCADE", Trip_tractor |-> "CASCADE",
     Trip_trailer |-> "SET_NULL", Trip_load |-> "SET_NULL",
     Load_shipper |-> "CASCADE", ELDLogSheet_driver |-> "CASCADE",
     HOSCycleTracking_driver |-> "CASCADE"]

\* a trailer reference that takes the trip with it
OnDelete_TrailerCascades ==
    [RouteWaypoint_trip |-> "CASCADE", FuelStop_trip |-> "CASCADE",
     RestBreak_trip |-> "CASCADE", ELDLogSheet_trip |-> "CASCADE",
     DutyStatusPeriod_log_sheet |-> "CASCADE",
     Trip_driver |-> "CASCADE", Trip_tractor |-> "CASCADE",
     Trip_trailer |-> "CASCADE", Trip_load |-> "SET_NULL",
     Load_shipper |-> "CASCADE", ELDLogSheet_driver |-> "CASCADE",
     HOSCycleTracking_driver |-> "CASCADE"]

\* on_delete of each ForeignKey
OnDelete ==
    [RouteWaypoint_trip |-> "CASCADE", FuelStop_trip |-> "CASCADE",
     RestBreak_trip |-> "CASCADE", ELDLogSheet_trip |-> "CASCADE",
     DutyStatusPeriod_log_sheet |-> "CASCADE",
     Trip_driver |-> "CASCADE", Trip_tractor |-> "CASCADE",
     Trip_trailer |-> "SET_NULL", Trip_load |-> "SET_NULL",
     Load_shipper |-> "CASCADE", ELDLogSheet_driver |-> "CASCADE",
     HOSCycleTracking_driver |-> "CASCADE"]

\* the rows of a table left after trip t is deleted
RowsAfterDelete(rows, rel, t) ==
    IF OnDelete[rel] = "CASCADE" THEN { r \in rows : r.trip # t } ELSE rows

\* the duty periods left after the sheets in gone are deleted
PeriodsAfterDelete(gone) ==
    IF OnDelete["DutyStatusPeriod_log_sheet"] = "CASCADE"
    THEN { p \in dutyPeriods : ~\E l \in gone : l.driver = p.driver /\ l.date = p.date }
    ELSE dutyPeriods

\* DELETE /trips/{t}/: destroy() deletes the row and what cascades from it
TripDelete(t) ==
    /\ UNCHANGED <<now, plan, gen, tripSeq, ext>>
    /\ IF t \notin DOMAIN trips
       THEN resp' = Replied("trip_delete", t, 404) /\ UNCHANGED db
       ELSE /\ resp' = Replied("trip_delete", t, 204)
            /\ trips' = [k \in DOMAIN trips \ {t} |-> trips[k]]
            /\ waypoints' = RowsAfterDelete(waypoints, "RouteWaypoint_trip", t)
            /\ fuelStops' = RowsAfterDelete(fuelStops, "FuelStop_trip", t)
            /\ restBreaks' = RowsAfterDelete(restBreaks, "RestBreak_trip", t)
            /\ logSheets' = RowsAfterDelete(logSheets, "ELDLogSheet_trip", t)
            /\ dutyPeriods' = PeriodsAfterDelete(logSheets \ logSheets')

\* Django admin, Trip change form with its inlines (RouteWaypointInline,
\* FuelStopInline, RestBreakInline): the rows typed in are taken to be those
\* the planner would generate for the trip
AdminSaveTripInlines(t) ==
    /\ t \in DOMAIN trips
    /\ waypoints' = waypoints \cup GenerateRouteWaypoints(t)
    /\ fuelStops' = fuelStops \cup GenerateFuelStops(t, trips[t])
    /\ restBreaks' = restBreaks \cup GenerateRestBreaks(t, trips[t])
    /\ resp' = Replied("admin_save_inlines", t, 200)
    /\ UNCHANGED <<now, trips, logSheets, dutyPeriods, plan, gen, tripSeq, ext>>

NextCascade ==
    \/ \E d \in Drivers, v \in Vehicles : AdminAddTrip(d, v, now) /\ UNCHANGED outer
    \/ \E t \in TripIds : AdminSaveTripInlines(t) /\ UNCHANGED outer
    \/ \E t \in TripIds : StartTrip(t) /\ UNCHANGED outer
    \/ \E d \in Drivers, a \in PeriodTimes \ {0} :
          AdminAddDutyPeriod(d, DateOf(now), "off_duty", MidnightOf(DateOf(now)),
                             MidnightOf(DateOf(now)) + a) /\ UNCHANGED outer
    \/ \E t \in TripIds : TripDelete(t) /\ UNCHANGED outer
    \/ Tick /\ UNCHANGED outer

SpecCascade == Init /\ [][NextCascade]_vars

----------------------------------------------------------------------------
(* DriverViewSet and VehicleViewSet: rows created and renumbered.  The other
   specifications keep both tables as they are at the start; here they grow. *)

\* a uniqueness check that never finds the identifier
NumberTaken_Never(table, n, self) == FALSE

\* UniqueValidator of a unique=True column: a row other than the one being
\* updated (self; 0 on create) carries the identifier
NumberTaken(table, n, self) ==
    \E k \in DOMAIN table : k # self /\ table[k] = n

\* the UNIQUE constraint of the column: the insert or update raises IntegrityError
UniqueConstraintRaises(table, n, self) ==
    \E k \in DOMAIN table : k # self /\ table[k] = n

\* the response of a request that named row pk and identifier n
NumberReplied(op, pk, n, code) == [op |-> op, trip |-> pk, code |-> code, number |-> n]

\* the username in user_data: one per driver, apart from the usernames
\* tried at registration
UsernameOfDriver(pk) == MaxUsers + pk

\* POST /drivers/ {driver_number, ..., user_data}: DriverCreateSerializer
DriverCreate(n) ==
    /\ UNCHANGED <<now, db, plan, gen, tripSeq, cycles, vehicleNumbers>>
    /\ IF NumberTaken(driverNumbers, n, 0)
       THEN /\ resp' = NumberReplied("driver_create", 0, n, 400)
            /\ UNCHANGED <<driverNumbers, users>>
       ELSE LET pk == Cardinality(DOMAIN driverNumbers) + 1
            IN  \* User.objects.create_user(**user_data) is committed first
                /\ users' = users @@ (UsernameOfDriver(pk) :> UserRow(0, 0))
                /\ IF UniqueConstraintRaises(driverNumbers, n, 0)
                   THEN /\ resp' = NumberReplied("driver_create", 0, n, 500)
                        /\ UNCHANGED driverNumbers
                   ELSE /\ resp' = NumberReplied("driver_create", pk, n, 201)
                        /\ driverNumbers' = driverNumbers @@ (pk :> n)

\* PUT / PATCH /drivers/{pk}/ {driver_number}: DriverSerializer
DriverUpdate(pk, n) ==
    /\ UNCHANGED <<now, db, plan, gen, tripSeq, cycles, vehicleNumbers>>
    /\ IF pk \notin DOMAIN driverNumbers
       THEN resp' = NumberReplied("driver_update", pk, n, 404) /\ UNCHANGED driverNumbers
       ELSE IF NumberTaken(driverNumbers, n, pk)
       THEN resp' = NumberReplied("driver_update", pk, n, 400) /\ UNCHANGED driverNumbers
       ELSE IF UniqueConstraintRaises(driverNumbers, n, pk)
       THEN resp' = NumberReplied("driver_update", pk, n, 500) /\ UNCHANGED driverNumbers
       ELSE /\ resp' = NumberReplied("driver_update", pk, n, 200)
            /\ driverNumbers' = [driverNumbers EXCEPT ![pk] = n]

\* POST /vehicles/ {vehicle_number, vehicle_type, ...}: VehicleSerializer
VehicleCreate(n) ==
    /\ UNCHANGED <<now, db, plan, gen, tripSeq, cycles, driverNumbers>>
    /\ IF NumberTaken(vehicleNumbers, n, 0)
       THEN resp' = NumberReplied("vehicle_create", 0, n, 400) /\ UNCHANGED vehicleNumbers
       ELSE IF UniqueConstraintRaises(vehicleNumbers, n, 0)
       THEN resp' = NumberReplied("vehicle_create", 0, n, 500) /\ UNCHANGED vehicleNumbers
       ELSE LET pk == Cardinality(DOMAIN vehicleNumbers) + 1
            IN  /\ resp' = NumberReplied("vehicle_create", pk, n, 201)
                /\ vehicleNumbers' = vehicleNumbers @@ (pk :> n)

\* PUT / PATCH /vehicles/{pk}/ {vehicle_number}: VehicleSerializer
VehicleUpdate(pk, n) ==
    /\ UNCHANGED <<now, db, plan, gen, tripSeq, cycles, driverNumbers>>
    /\ IF pk \notin DOMAIN vehicleNumbers
       THEN resp' = NumberReplied("vehicle_update", pk, n, 404) /\ UNCHANGED vehicleNumbers
       ELSE IF NumberTaken(vehicleNumbers, n, pk)
       THEN resp' = NumberReplied("vehicle_update", pk, n, 400) /\ UNCHANGED vehicleNumbers
       ELSE IF UniqueConstraintRaises(vehicleNumbers, n, pk)
       THEN resp' = NumberReplied("vehicle_update", pk, n, 500) /\ UNCHANGED vehicleNumbers
       ELSE /\ resp' = NumberReplied("vehicle_update", pk, n, 200)
            /\ vehicleNumbers' = [vehicleNumbers EXCEPT ![pk] = n]

\* the identifiers and keys tried in the requests
NumberInputs == 1..MaxVehicles
DriverKeys == 1..MaxDrivers
VehicleKeys == 1..MaxVehicles

NextIdentifiers ==
    \/ \E n \in NumberInputs :
          Cardinality(DOMAIN driverNumbers) < MaxDrivers /\ DriverCreate(n)
          /\ UNCHANGED <<tokens, tokenSeq, shippers, loads, request>>
    \/ \E pk \in DriverKeys, n \in NumberInputs : DriverUpdate(pk, n) /\ UNCHANGED outer
    \/ \E n \in NumberInputs :
          Cardinality(DOMAIN vehicleNumbers) < MaxVehicles /\ VehicleCreate(n) /\ UNCHANGED outer
    \/ \E pk \in VehicleKeys, n \in NumberInputs : VehicleUpdate(pk, n) /\ UNCHANGED outer

SpecIdentifiers == Init /\ [][NextIdentifiers]_vars

----------------------------------------------------------------------------
(* Deleting what a Trip refers to: DriverViewSet, VehicleViewSet, LoadViewSet
   and ShipperViewSet destroy(), and the trip's references set by PATCH *)

\* the trips that go when the row they name in column col is deleted
TripsGoneWith(rel, col, key) ==
    IF OnDelete[rel] = "CASCADE"
    THEN { t \in DOMAIN trips : trips[t][col] = key /\ key # NoRef }
    ELSE {}

\* a trip row after the rows its trailer or load column names are deleted
Nulled(row, vehiclesGone, loadsGone) ==
    [row EXCEPT
       !.trailer = IF @ \in vehiclesGone /\ OnDelete["Trip_trailer"] = "SET_NULL"
                   THEN NoRef ELSE @,
       !.load = IF @ \in loadsGone /\ OnDelete["Trip_load"] = "SET_NULL"
                THEN NoRef ELSE @]

\* rows of a child table left after the trips in gone are deleted
RowsAfterTrips(rows, rel, gone) ==
    IF OnDelete[rel] = "CASCADE" THEN { r \in rows : r.trip \notin gone } ELSE rows

\* the collector's effect on the trip tables: the trips in gone and what
\* cascades from them go, with the log sheets of the drivers in driversGone
DeleteCollected(gone, driversGone, vehiclesGone, loadsGone) ==
    /\ trips' = [k \in DOMAIN trips \ gone |-> Nulled(trips[k], vehiclesGone, loadsGone)]
    /\ waypoints' = RowsAfterTrips(waypoints, "RouteWaypoint_trip", gone)
    /\ fuelStops' = RowsAfterTrips(fuelStops, "FuelStop_trip", gone)
    /\ restBreaks' = RowsAfterTrips(restBreaks, "RestBreak_trip", gone)
    /\ logSheets' =
         { l \in RowsAfterTrips(logSheets, "ELDLogSheet_trip", gone) :
             ~(l.driver \in driversGone /\ OnDelete["ELDLogSheet_driver"] = "CASCADE") }
    /\ dutyPeriods' = PeriodsAfterDelete(logSheets \ logSheets')

\* PATCH /trips/{t}/ {trailer_id, load_id}: TripSerializer writes the two
\* columns as given; a key that names no row violates the FOREIGN KEY
TripSetReferences(t, trailer, load) ==
    /\ UNCHANGED <<now, logSheets, waypoints, fuelStops, restBreaks, dutyPeriods, plan, gen,
                   tripSeq, ext>>
    /\ IF t \notin DOMAIN trips
       THEN resp' = Replied("set_references", t, 404) /\ UNCHANGED trips
       ELSE IF \/ trailer # NoRef /\ trailer \notin DOMAIN vehicleNumbers
               \/ load # NoRef /\ load \notin DOMAIN loads
       THEN resp' = Replied("set_references", t, 500) /\ UNCHANGED trips
       ELSE /\ resp' = Replied("set_references", t, 200)
            /\ trips' = [trips EXCEPT ![t].trailer = trailer, ![t].load = load]

\* DELETE /vehicles/{v}/
VehicleDelete(v) ==
    /\ UNCHANGED <<now, plan, gen, tripSeq, cycles, driverNumbers>>
    /\ IF v \notin DOMAIN vehicleNumbers
       THEN resp' = Replied("vehicle_delete", v, 404) /\ UNCHANGED <<db, vehicleNumbers>>
       ELSE /\ resp' = Replied("vehicle_delete", v, 204)
            /\ vehicleNumbers' = [k \in DOMAIN vehicleNumbers \ {v} |-> vehicleNumbers[k]]
            /\ DeleteCollected(TripsGoneWith("Trip_tractor", "tractor", v), {}, {v}, {})

\* DELETE /drivers/{d}/
DriverDelete(d) ==
    /\ UNCHANGED <<now, plan, gen, tripSeq, vehicleNumbers>>
    /\ IF d \notin DOMAIN driverNumbers
       THEN resp' = Replied("driver_delete", d, 404) /\ UNCHANGED <<db, driverNumbers, cycles>>
       ELSE /\ resp' = Replied("driver_delete", d, 204)
            /\ driverNumbers' = [k \in DOMAIN driverNumbers \ {d} |-> driverNumbers[k]]
            /\ cycles' =
                 IF OnDelete["HOSCycleTracking_driver"] = "CASCADE"
                 THEN [c \in { k \in DOMAIN cycles : cycles[k].driver # d } |-> cycles[c]]
                 ELSE cycles
            /\ DeleteCollected(TripsGoneWith("Trip_driver", "driver", d), {d}, {}, {})

\* the loads that go with a set of shippers
LoadsGoneWith(shippersGone) ==
    IF OnDelete["Load_shipper"] = "CASCADE"
    THEN { l \in DOMAIN loads : loads[l] \in shippersGone }
    ELSE {}

\* DELETE /loads/{l}/
LoadDelete(l) ==
    /\ UNCHANGED <<now, plan, gen, tripSeq, ext, shippers>>
    /\ IF l \notin DOMAIN loads
       THEN resp' = Replied("load_delete", l, 404) /\ UNCHANGED <<db, loads>>
       ELSE /\ resp' = Replied("load_delete", l, 204)
            /\ loads' = [k \in DOMAIN loads \ {l} |-> loads[k]]
            /\ DeleteCollected({}, {}, {}, {l})

\* DELETE /shippers/{sh}/
ShipperDelete(sh) ==
    /\ UNCHANGED <<now, plan, gen, tripSeq, ext>>
    /\ IF sh \notin shippers
       THEN resp' = Replied("shipper_delete", sh, 404) /\ UNCHANGED <<db, shippers, loads>>
       ELSE /\ resp' = Replied("shipper_delete", sh, 204)
            /\ shippers' = shippers \ {sh}
            /\ loads' = [k \in DOMAIN loads \ LoadsGoneWith({sh}) |-> loads[k]]
            /\ DeleteCollected({}, {}, {}, LoadsGoneWith({sh}))

\* everything but the tables of the token layer and the request it saw
NoTokenChange == UNCHANGED <<users, tokens, tokenSeq, request>>

NextReferences ==
    \/ \E d \in Drivers, v \in Vehicles :
          /\ d \in DOMAIN driverNumbers /\ v \in DOMAIN vehicleNumbers
          /\ AdminAddTrip(d, v, now) /\ UNCHANGED outer
    \/ \E t \in TripIds, v \in {NoRef} \cup VehicleIds, l \in {NoRef, 1, 2} :
          TripSetReferences(t, v, l) /\ UNCHANGED outer
    \/ \E t \in TripIds : AdminSaveTripInlines(t) /\ UNCHANGED outer
    \/ \E t \in TripIds : StartTrip(t) /\ UNCHANGED outer
    \/ \E v \in VehicleIds : VehicleDelete(v) /\ UNCHANGED outer
    \/ \E d \in DriverIds : DriverDelete(d) /\ UNCHANGED outer
    \/ \E l \in {1, 2} : LoadDelete(l) /\ NoTokenChange
    \/ \E sh \in {1, 2} : ShipperDelete(sh) /\ NoTokenChange

SpecReferences == Init /\ [][NextReferences]_vars

----------------------------------------------------------------------------
(* The token layer: RegisterView, LoginView, LogoutView, LogoutAllView, and
   knox TokenAuthentication with the permission classes in front of every
   view.  A token is the number of its issue: AuthToken.objects.create draws
   64 random hex digits, which the model takes to be fresh. *)

MinPasswordLength == 8
NoPassword == 0      \* a missing password field; create_user() without password
NoName == 0          \* a missing or blank username, email or driver_number
NoToken == 0         \* a request without Authorization header

\* REST_KNOX TOKEN_TTL, minutes: every token carries an expiry
TokenTTL == 600

\* REST_FRAMEWORK DEFAULT_AUTHENTICATION_CLASSES
DefaultAuthenticationClasses == "TokenAuthentication"

Endpoints ==
    {"login", "register", "logout", "logout_all", "drivers", "vehicles", "shippers",
     "loads", "trips", "plan_trip", "eld_logs", "duty_periods", "hos_cycles"}

\* the views' authentication_classes
AuthenticationClasses ==
    [ep \in Endpoints |->
        IF ep \in {"logout", "logout_all"} THEN "TokenAuthentication"
        ELSE DefaultAuthenticationClasses]

\* permission classes with the vehicles endpoint left open
PermissionClasses_VehiclesOpen ==
    [ep \in Endpoints |->
        IF ep \in {"login", "register", "vehicles"} THEN "AllowAny" ELSE "IsAuthenticated"]

\* the views' permission_classes
PermissionClasses ==
    [ep \in Endpoints |->
        IF ep \in {"login", "register"} THEN "AllowAny" ELSE "IsAuthenticated"]

TokenRow(tok, u, expiry) == [token |-> tok, user |-> u, expiry |-> expiry]

Stored(tks, h) == \E r \in tks : r.token = h

RowOf(h) == CHOOSE r \in tokens : r.token = h

\* knox: auth_token.expiry < timezone.now()
Expired(r, clock) == r.expiry < clock

\* TokenAuthentication.authenticate_credentials: the header names a stored,
\* unexpired token
TokenValid(tks, h, clock) == \E r \in tks : r.token = h /\ ~Expired(r, clock)

Authenticates(ep, h) ==
    /\ h # NoToken
    /\ AuthenticationClasses[ep] = "TokenAuthentication"
    /\ TokenValid(tokens, h, now)

\* TokenAuthentication._cleanup_token: looking a stored token up deletes the
\* expired tokens of its user, whether or not the request is then admitted
Purged(h) ==
    IF Stored(tokens, h)
    THEN { r \in tokens : ~(r.user = RowOf(h).user /\ Expired(r, now)) }
    ELSE tokens

\* a bad token is AuthenticationFailed on every view; without a token
\* IsAuthenticated refuses and AllowAny admits
Permitted(ep, h) ==
    \/ Authenticates(ep, h)
    \/ h = NoToken /\ PermissionClasses[ep] = "AllowAny"

\* the fields of a registration or login request
Body(u, e, p, pc, dn, other) ==
    [username |-> u, email |-> e, password |-> p, password_confirm |-> pc,
     driver_number |-> dn, other |-> other]

Arrives(ep, h, body) ==
    request' = [endpoint |-> ep, header |-> h, body |-> body]

\* the token layer lets the request through to the view
Admitted(ep, h) ==
    /\ Permitted(ep, h)
    /\ Arrives(ep, h, NoBody)
    /\ tokens' = Purged(h)
    /\ UNCHANGED tokenSeq

\* the token layer answers 401, the view does not run
Rejected(ep, op, h, body) ==
    /\ ~Permitted(ep, h)
    /\ Arrives(ep, h, body)
    /\ resp' = Replied(op, 0, 401)
    /\ tokens' = Purged(h)
    /\ UNCHANGED <<now, db, plan, gen, tripSeq, ext, users, tokenSeq, shippers, loads>>

\* the response of login carries the token it issued
TokenReplied(op, code, tok) == [op |-> op, trip |-> 0, code |-> code, token |-> tok]

\* a login that hands the lowest number no stored token carries
NewToken_LowestFree == CHOOSE k \in 1..(tokenSeq + 1) : ~Stored(tokens, k)

\* AuthToken.objects.create(user): a token never issued before
NewToken == tokenSeq + 1

\* a validation that does not look the email up
RegistrationErrors_EmailUnchecked(u, e, p, pc, dn, other) ==
       (IF u = NoName THEN {"username required"} ELSE {})
  \cup (IF u \in DOMAIN users THEN {"username exists"} ELSE {})
  \cup (IF p = NoPassword THEN {"password required"} ELSE {})
  \cup (IF p # NoPassword /\ p < MinPasswordLength THEN {"password too short"} ELSE {})
  \cup (IF p # pc THEN {"passwords do not match"} ELSE {})
  \cup (IF (dn # NoName \/ other) /\ dn = NoName THEN {"driver number required"} ELSE {})
  \cup (IF dn # NoName /\ (\E k \in DOMAIN driverNumbers : driverNumbers[k] = dn)
        THEN {"driver number exists"} ELSE {})

\* UserRegistrationSerializer: the field validators, then validate()
RegistrationErrors(u, e, p, pc, dn, other) ==
       (IF u = NoName THEN {"username required"} ELSE {})
  \cup (IF u \in DOMAIN users THEN {"username exists"} ELSE {})
  \cup (IF p = NoPassword THEN {"password required"} ELSE {})
  \cup (IF p # NoPassword /\ p < MinPasswordLength THEN {"password too short"} ELSE {})
  \cup (IF p # pc THEN {"passwords do not match"} ELSE {})
  \cup (IF e # NoName /\ (\E n \in DOMAIN users : users[n].email = e)
        THEN {"email exists"} ELSE {})
  \cup (IF (dn # NoName \/ other) /\ dn = NoName THEN {"driver number required"} ELSE {})
  \cup (IF dn # NoName /\ (\E k \in DOMAIN driverNumbers : driverNumbers[k] = dn)
        THEN {"driver number exists"} ELSE {})

\* POST /auth/register/: RegisterView.create, UserRegistrationSerializer.create
Register(h, u, e, p, pc, dn, other) ==
    \/ Rejected("register", "register", h, Body(u, e, p, pc, dn, other))
    \/ /\ Permitted("register", h)
       /\ Arrives("register", h, Body(u, e, p, pc, dn, other))
       /\ tokens' = Purged(h)
       /\ UNCHANGED tokenSeq
       /\ UNCHANGED <<now, db, plan, gen, tripSeq, cycles, vehicleNumbers, shippers, loads>>
       /\ IF RegistrationErrors(u, e, p, pc, dn, other) # {}
          THEN resp' = Replied("register", 0, 400) /\ UNCHANGED <<users, driverNumbers>>
          ELSE /\ resp' = Replied("register", 0, 201)
               /\ users' = users @@ (u :> UserRow(p, e))
               /\ driverNumbers' =
                    IF dn = NoName THEN driverNumbers
                    ELSE driverNumbers @@ ((Cardinality(DOMAIN driverNumbers) + 1) :> dn)

\* django.contrib.auth.authenticate(): the user exists and the password matches
Credentials(u, p) == u \in DOMAIN users /\ users[u].password = p

\* POST /auth/login/: LoginView.post
Login(h, u, p) ==
    \/ Rejected("login", "login", h, Body(u, NoName, p, NoPassword, NoName, FALSE))
    \/ /\ Permitted("login", h)
       /\ Arrives("login", h, Body(u, NoName, p, NoPassword, NoName, FALSE))
       /\ UNCHANGED <<now, db, plan, gen, tripSeq, ext, users, shippers, loads>>
       /\ IF u = NoName \/ p = NoPassword
          THEN resp' = Replied("login", 0, 400) /\ tokens' = Purged(h) /\ UNCHANGED tokenSeq
          ELSE IF ~Credentials(u, p)
          THEN resp' = Replied("login", 0, 401) /\ tokens' = Purged(h) /\ UNCHANGED tokenSeq
          ELSE /\ resp' = TokenReplied("login", 200, NewToken)
               /\ tokens' = Purged(h) \cup {TokenRow(NewToken, u, now + TokenTTL)}
               /\ tokenSeq' = tokenSeq + 1

\* a logout that leaves the token stored
LogoutDeletes_Nothing(h) == {}

\* knox LogoutView.post: request._auth.delete()
LogoutDeletes(h) == { r \in tokens : r.token = h }

\* POST /auth/logout/
Logout(h) ==
    \/ Rejected("logout", "logout", h, NoBody)
    \/ /\ Permitted("logout", h)
       /\ Arrives("logout", h, NoBody)
       /\ resp' = Replied("logout", 0, 204)
       /\ tokens' = Purged(h) \ LogoutDeletes(h)
       /\ UNCHANGED <<now, db, plan, gen, tripSeq, ext, users, tokenSeq, shippers, loads>>

\* POST /auth/logout-all/: request.user.auth_token_set.all().delete()
LogoutAll(h) ==
    \/ Rejected("logout_all", "logout_all", h, NoBody)
    \/ /\ Permitted("logout_all", h)
       /\ Arrives("logout_all", h, NoBody)
       /\ resp' = Replied("logout_all", 0, 200)
       /\ tokens' = { r \in tokens : r.user # RowOf(h).user }
       /\ UNCHANGED <<now, db, plan, gen, tripSeq, ext, users, tokenSeq, shippers, loads>>

\* GET /drivers/: DriverViewSet.list
DriverList(h) ==
    \/ Rejected("drivers", "driver_list", h, NoBody)
    \/ /\ Admitted("drivers", h)
       /\ resp' = Replied("driver_list", 0, 200)
       /\ UNCHANGED <<now, db, plan, gen, tripSeq, ext, users, shippers, loads>>

\* a step that is no request to the API
NotARequest == request' = NoRequestSeen

Headers == 0..MaxTokens
\* driver_number and whether another driver field is filled in
DriverFieldInputs == {<<NoName, FALSE>>, <<NoName, TRUE>>, <<1, FALSE>>, <<2, FALSE>>}
Usernames == 0..MaxUsers
Emails == 0..MaxUsers
Passwords == {NoPassword, MinPasswordLength - 1, MinPasswordLength, MinPasswordLength + 1}

NextAuth ==
    \/ \E h \in {NoToken, 1}, u \in Usernames, e \in Emails \ {NoName},
          p \in Passwords \ {NoPassword}, drv \in DriverFieldInputs :
          Register(h, u, e, p, MinPasswordLength, drv[1], drv[2])
    \/ \E h \in Headers, u \in Usernames, p \in Passwords :
          tokenSeq < MaxTokens /\ Login(h, u, p)
    \/ \E h \in Headers : Logout(h)
    \/ \E h \in Headers : LogoutAll(h)
    \/ \E h \in Headers : DriverList(h)
    \/ Tick /\ NotARequest /\ UNCHANGED <<users, tokens, tokenSeq, shippers, loads>>

SpecAuth == Init /\ [][NextAuth]_vars

----------------------------------------------------------------------------
(* One writing request to each protected endpoint, behind the token layer *)

\* a request to a protected view: refused by the token layer, or passed on to
\* the view, whose effect is the action View
Protected(ep, op, h, View) ==
    \/ Rejected(ep, op, h, NoBody)
    \/ Admitted(ep, h) /\ View

\* a step of the admin site, of the clock or of a request already admitted
Inside == NotARequest /\ UNCHANGED <<users, tokens, tokenSeq, shippers, loads>>

NextProtected ==
    \/ \E h \in Headers :
          Protected("drivers", "driver_create", h,
                    DriverCreate(2) /\ UNCHANGED <<shippers, loads>>)
    \/ \E h \in Headers :
          Protected("vehicles", "vehicle_create", h,
                    VehicleCreate(MaxVehicles) /\ UNCHANGED <<users, shippers, loads>>)
    \/ \E h \in Headers :
          Protected("shippers", "shipper_delete", h, ShipperDelete(1) /\ UNCHANGED users)
    \/ \E h \in Headers :
          Protected("loads", "load_delete", h, LoadDelete(1) /\ UNCHANGED users)
    \/ \E h \in Headers :
          Protected("trips", "trip_delete", h,
                    TripDelete(1) /\ UNCHANGED <<users, shippers, loads>>)
    \/ \E h \in Headers :
          Protected("plan_trip", "plan_trip", h,
                    PlanValidate(1, PlanRequest(1, 3, NoRef, 0))
                    /\ UNCHANGED <<users, shippers, loads>>)
    \/ \E h \in Headers :
          Protected("eld_logs", "eld_log_create", h,
                    EldLogCreate(1, 1, DateOf(now)) /\ UNCHANGED <<users, shippers, loads>>)
    \/ \E h \in Headers :
          Protected("duty_periods", "duty_period_create", h,
                    DutyPeriodCreate(1, DateOf(now), "driving", now, now + 360)
                    /\ UNCHANGED <<users, shippers, loads>>)
    \/ \E h \in Headers :
          Protected("hos_cycles", "cycle_create", h,
                    CycleCreate(0, 0) /\ UNCHANGED <<users, shippers, loads>>)
    \/ \E h \in Headers : Logout(h)
    \/ tokenSeq < MaxTokens - 1 /\ Login(NoToken, 1, MinPasswordLength)
    \/ PlanCheck(1) /\ Inside
    \/ PlanCreate(1) /\ Inside
    \/ tripSeq < MaxTrips - 1 /\ AdminAddTrip(1, 1, now) /\ Inside
    \/ Tick /\ Inside

SpecProtected == Init /\ [][NextProtected]_vars

----------------------------------------------------------------------------
(* The writers of Trip.current_cycle_used_hours: the trips endpoint (create,
   update), the admin forms and plan-trip.  Hours are counted in hundredths. *)

\* a range check without the upper bound
TripCycleValid_NoUpperBound(c) == c >= 0

\* Trip.current_cycle_used_hours validators: MinValueValidator(0),
\* MaxValueValidator(70); the ModelSerializer and the admin form both run them
TripCycleValid(c) == c >= 0 /\ c <= CycleMaxHundredths

\* the names in TripCreateSerializer.Meta.fields that are neither a field nor
\* an attribute of Trip: ImproperlyConfigured when the fields are built
TripCreateSerializerRaises ==
    \E f \in {"driver_id", "truck_id", "trailer_id", "load_id"} :
       f \notin TripModelFields

\* POST /trips/: TripCreateSerializer
TripCreate(d, tractor, c) ==
    /\ UNCHANGED <<now, logSheets, waypoints, fuelStops, restBreaks, dutyPeriods, plan, gen, ext>>
    /\ IF TripCreateSerializerRaises
       THEN resp' = Replied("trip_create", 0, 500) /\ UNCHANGED <<trips, tripSeq>>
       ELSE IF ~TripCycleValid(c)
       THEN resp' = Replied("trip_create", 0, 400) /\ UNCHANGED <<trips, tripSeq>>
       ELSE /\ resp' = Replied("trip_create", NextTripId, 201)
            /\ trips' = trips @@ (NextTripId :> TripRow(d, tractor, NoRef, "planned", now, 0, c))
            /\ tripSeq' = NextTripId

\* PUT or PATCH /trips/{t}/ with current_cycle_used_hours: TripSerializer
TripUpdateCycle(t, c) ==
    /\ UNCHANGED <<now, logSheets, waypoints, fuelStops, restBreaks, dutyPeriods, plan, gen,
                   tripSeq, ext>>
    /\ IF t \notin DOMAIN trips
       THEN resp' = Replied("update_cycle", t, 404) /\ UNCHANGED trips
       ELSE IF ~TripCycleValid(c)
       THEN resp' = Replied("update_cycle", t, 400) /\ UNCHANGED trips
       ELSE /\ resp' = Replied("update_cycle", t, 200)
            /\ trips' = [trips EXCEPT ![t].current_cycle_used_hours = c]

\* Django admin, Trip change form: a value the validators refuse is not saved
AdminChangeTripCycle(t, c) ==
    /\ t \in DOMAIN trips
    /\ UNCHANGED <<now, logSheets, waypoints, fuelStops, restBreaks, dutyPeriods, plan, gen,
                   tripSeq, ext>>
    /\ IF ~TripCycleValid(c)
       THEN resp' = Replied("admin_change", t, 400) /\ UNCHANGED trips
       ELSE /\ resp' = Replied("admin_change", t, 200)
            /\ trips' = [trips EXCEPT ![t].current_cycle_used_hours = c]

NextTripCycle ==
    \/ \E d \in Drivers, v \in Vehicles : AdminAddTrip(d, v, now) /\ UNCHANGED outer
    \/ \E c \in CycleInputs : TripCreate(1, 1, c) /\ UNCHANGED outer
    \/ \E t \in TripIds, c \in CycleInputs : TripUpdateCycle(t, c) /\ UNCHANGED outer
    \/ \E t \in TripIds, c \in CycleInputs : AdminChangeTripCycle(t, c) /\ UNCHANGED outer
    \/ \E req \in AllPlanInputs : PlanValidate(1, req) /\ UNCHANGED outer
    \/ PlanCheck(1) /\ UNCHANGED outer
    \/ PlanCreate(1) /\ UNCHANGED outer

SpecTripCycle == Init /\ [][NextTripCycle]_vars

----------------------------------------------------------------------------
(* Two start_trip requests in flight at once: the view's three accesses to
   the database (get_object, trip.save, ELDLogSheet.objects.create) are one
   step each, and the clock may advance between them *)

StartSlot(pc, t, row, code) == [pc |-> pc, trip |-> t, row |-> row, code |-> code]

NoRow == <<>>

StartRest == UNCHANGED <<waypoints, fuelStops, restBreaks, dutyPeriods, resp, gen, tripSeq, ext>>

\* self.get_object() and the status test on the instance it returned
StartLoad(r, t) ==
    /\ plan[r] = Idle
    /\ UNCHANGED <<now, trips, logSheets>> /\ StartRest
    /\ plan' = [plan EXCEPT ![r] =
          IF t \notin DOMAIN trips THEN StartSlot("done", t, NoRow, 404)
          ELSE IF ~StartAllowed(trips[t].status) THEN StartSlot("done", t, NoRow, 400)
          ELSE StartSlot("checked", t, trips[t], 0)]

\* trip.status = 'in_progress'; trip.start_time = datetime.now(); trip.save():
\* save() writes every column of the instance the request holds
StartSave(r) ==
    /\ plan[r] # Idle /\ plan[r].pc = "checked"
    /\ LET row == [plan[r].row EXCEPT !.status = "in_progress", !.start_time = now]
       IN  /\ trips' = [trips EXCEPT ![plan[r].trip] = row]
           /\ plan' = [plan EXCEPT ![r] = StartSlot("saved", plan[r].trip, row, 0)]
    /\ UNCHANGED <<now, logSheets>> /\ StartRest

\* ELDLogSheet.objects.create(trip=, driver=, date=datetime.now().date())
StartCreateSheet(r) ==
    /\ plan[r] # Idle /\ plan[r].pc = "saved"
    /\ LET t == plan[r].trip
           d == plan[r].row.driver
       IN  IF LogSheetExists(logSheets, d, DateOf(now))
           THEN /\ plan' = [plan EXCEPT ![r] = StartSlot("done", t, plan[r].row, 500)]
                /\ logSheets' = logSheets
           ELSE /\ plan' = [plan EXCEPT ![r] = StartSlot("done", t, plan[r].row, 200)]
                /\ logSheets' = logSheets \cup {DefaultLogRow(t, d, DateOf(now))}
    /\ UNCHANGED <<now, trips>> /\ StartRest

NextStartRace ==
    \/ \E d \in Drivers, v \in Vehicles : AdminAddTrip(d, v, now) /\ UNCHANGED outer
    \/ \E r \in Slots, t \in TripIds : StartLoad(r, t) /\ UNCHANGED outer
    \/ \E r \in Slots : StartSave(r) /\ UNCHANGED outer
    \/ \E r \in Slots : StartCreateSheet(r) /\ UNCHANGED outer
    \/ Tick /\ UNCHANGED outer

SpecStartRace == Init /\ [][NextStartRace]_vars

----------------------------------------------------------------------------
(* Claims *)

\* a step of start_trip / complete_trip on trip t that changed something
StartStep(t) ==
    /\ resp'.op = "start_trip" /\ resp'.trip = t
    /\ <<resp, trips, logSheets>>' # <<resp, trips, logSheets>>

CompleteStep(t) ==
    /\ resp'.op = "complete_trip" /\ resp'.trip = t
    /\ <<resp, trips, logSheets>>' # <<resp, trips, logSheets>>

StatusEdges ==
    { <<"planned", "in_progress">>, <<"in_progress", "completed">>,
      <<"planned", "cancelled">>, <<"in_progress", "cancelled">> }

\* C1: every change of a stored trip's status follows one of the edges
\* planned->in_progress, in_progress->completed, planned->cancelled,
\* in_progress->cancelled (so completed and cancelled are never left).
C1_StatusFollowsEdges ==
    [][\A t \in DOMAIN trips :
          (t \in DOMAIN trips' /\ trips'[t].status # trips[t].status)
             => <<trips[t].status, trips'[t].status>> \in StatusEdges]_vars

\* C2: start on a trip that is not planned, and complete on a trip that is not
\* in progress, are answered 400, leave the trip row as it was and add no log sheet.
C2_RejectedTransitionChangesNothing ==
    [][\A t \in DOMAIN trips :
          (  (StartStep(t) /\ trips[t].status # "planned")
          \/ (CompleteStep(t) /\ trips[t].status # "in_progress") )
             => /\ resp'.code = 400
                /\ trips' = trips
                /\ logSheets' = logSheets]_vars

\* C2 witness: a start was refused on a trip that complete_trip had completed
C2_Witness ==
    /\ resp.op = "start_trip" /\ resp.code = 400
    /\ resp.trip \in DOMAIN trips
    /\ trips[resp.trip].status = "completed"
    /\ trips[resp.trip].actual_end_time # NoTime

\* C3: start on a planned trip succeeds: it is answered 200, the trip is in
\* progress and a log sheet of the trip's driver for the start date references it.
C3_StartOfPlannedSucceeds ==
    [][\A t \in DOMAIN trips :
          (StartStep(t) /\ trips[t].status = "planned")
             => /\ resp'.code = 200
                /\ trips'[t].status = "in_progress"
                /\ \E l \in logSheets' :
                      /\ l.trip = t
                      /\ l.driver = trips'[t].driver
                      /\ l.date = DateOf(trips'[t].start_time)]_vars

\* the driver has a Trip starting on the date or a log sheet dated the date
DriverBusyOn(d, date) ==
    \/ \E t \in DOMAIN trips : trips[t].driver = d /\ DateOf(trips[t].start_time) = date
    \/ \E l \in logSheets : l.driver = d /\ l.date = date

ConflictMessage == {"Another trip has already been setup for today"}

PassedValidation(r) == plan[r].pc = "done" /\ ValidationErrors(plan[r].req) = {}

\* no trip or sheet of driver d on the date other than what the two requests made
NothingForeign(d, date) ==
    /\ \A t \in DOMAIN trips :
          (trips[t].driver = d /\ DateOf(trips[t].start_time) = date)
             => t \in {plan[1].trip, plan[2].trip}
    /\ \A l \in logSheets :
          (l.driver = d /\ l.date = date) => l.trip \in {plan[1].trip, plan[2].trip}

\* C5: of two plan-trip requests for the same driver on the same date (no trip
\* or sheet of that date existing beforehand) exactly one is answered 201 and
\* the other 400.
C5_ExactlyOneSucceeds ==
    (  PassedValidation(1) /\ PassedValidation(2)
    /\ plan[1].req.driver_id = plan[2].req.driver_id
    /\ DateOf(now) = 0
    /\ NothingForeign(plan[1].req.driver_id, 0) )
       => \E r \in Slots :
             /\ plan[r].code = 201
             /\ plan[3 - r].code = 400

OneTripPerDriverDay ==
    \A t1, t2 \in DOMAIN trips :
       (  trips[t1].driver = trips[t2].driver
       /\ DateOf(trips[t1].start_time) = DateOf(trips[t2].start_time) ) => t1 = t2

OneLogPerDriverDay ==
    \A l1, l2 \in logSheets :
       (l1.driver = l2.driver /\ l1.date = l2.date) => l1 = l2

\* C6: at most one trip per driver and start date and at most one log sheet per
\* driver and date; stated of every step that inserts no Trip row (start_trip,
\* eld-logs creation, ...): such a step keeps both.
C6_OnePerDriverDay ==
    [][(OneTripPerDriverDay /\ OneLogPerDriverDay /\ DOMAIN trips' = DOMAIN trips)
          => (OneTripPerDriverDay' /\ OneLogPerDriverDay')]_vars

\* the validation rules as the claim states them
ClaimValid(req) ==
    /\ req.current_cycle_used_hours >= 0
    /\ req.current_cycle_used_hours <= CycleMaxHundredths
    /\ req.driver_id \in Drivers
    /\ req.truck_id \in Vehicles /\ VehicleTypeOf[req.truck_id] = "tractor"
    /\ \/ req.trailer_id = NoRef
       \/ req.trailer_id \in Vehicles /\ VehicleTypeOf[req.trailer_id] = "trailer"

\* C8: a request is accepted exactly when the cycle hours are in [0,70], the
\* driver exists, the tractor reference is a stored tractor and the trailer
\* reference, when given, is a stored trailer.
C8_AcceptsExactlyValid ==
    plan[1].pc # "idle" => ((plan[1].pc = "validated") <=> ClaimValid(plan[1].req))

\* the request field an error message is about
FieldOfError(e) ==
    CASE e = "current_cycle_used_hours" -> "current_cycle_used_hours"
      [] e = "Driver does not exist" -> "driver_id"
      [] e \in {"Tractor does not exist", "Selected vehicle is not a truck"} -> "truck_id"
      [] e \in {"Trailer does not exist", "Selected vehicle is not a trailer"} -> "trailer_id"
      [] OTHER -> "none"

\* the fields of a request that break a rule (a tractor reference counts only
\* when it names no vehicle or a trailer)
ViolatedFields(req) ==
    (IF req.current_cycle_used_hours < 0 \/ req.current_cycle_used_hours > CycleMaxHundredths
        THEN {"current_cycle_used_hours"} ELSE {})
    \cup (IF req.driver_id \notin Drivers THEN {"driver_id"} ELSE {})
    \cup (IF req.truck_id \notin Vehicles \/ VehicleTypeOf[req.truck_id] = "trailer"
        THEN {"truck_id"} ELSE {})
    \cup (IF req.trailer_id # NoRef
             /\ (req.trailer_id \notin Vehicles \/ VehicleTypeOf[req.trailer_id] # "trailer")
        THEN {"trailer_id"} ELSE {})

\* C9: a refused request's error names every field that breaks a rule.
C9_EveryViolatedFieldReported ==
    (plan[1].pc = "done" /\ plan[1].code = 400)
       => ViolatedFields(plan[1].req) \subseteq { FieldOfError(e) : e \in plan[1].errors }

CeilDiv(a, b) == (a + b - 1) \div b

Min(a, b) == IF a < b THEN a ELSE b

\* C10: for estimated miles m >= 1 exactly ceil(m / 1000) fuel stops are made,
\* the i-th (0-based) at min((i + 1) * 1000, m).
C10_FuelStopsEveryThousand ==
    LET m == trips[1].total_estimated_miles
        made == { f \in fuelStops : f.trip = 1 }
    IN  (gen.pc \in {"rest_breaks", "log_sheets", "done"} /\ m >= 1)
           => /\ Cardinality(made) = CeilDiv(m, FuelInterval)
              /\ \A i \in 0..(CeilDiv(m, FuelInterval) - 1) :
                    \E f \in made : /\ f.location = i + 1
                                    /\ f.miles_from_start = Min((i + 1) * FuelInterval, m)

----------------------------------------------------------------------------
(* Claims about the planner's rest breaks and daily log *)

\* the cycle tracker reports restart eligibility for the driver
RestartEligible(d) ==
    \E c \in DOMAIN cycles : cycles[c].driver = d /\ cycles[c].restart_available

\* C11: the rest breaks generated for a trip hold a 30_min break that starts
\* exactly 8 hours after the trip start and a 10_hour rest that starts exactly
\* 14 hours after it, no other start for either type, and a 34_hour restart
\* only when the cycle tracker reports eligibility.
C11_RestBreaksAtEightAndFourteen ==
    LET made == { b \in restBreaks : b.trip = 1 }
        start == trips[1].start_time
    IN  gen.pc \in {"log_sheets", "done"}
           => /\ \E b \in made : b.break_type = "30_min" /\ b.scheduled_start = start + 8 * 60
              /\ \E b \in made : b.break_type = "10_hour" /\ b.scheduled_start = start + 14 * 60
              /\ \A b \in made :
                    /\ b.break_type = "30_min" => b.scheduled_start = start + 8 * 60
                    /\ b.break_type = "10_hour" => b.scheduled_start = start + 14 * 60
                    /\ b.break_type = "34_hour" => RestartEligible(trips[1].driver)

\* C11 witness: the breaks of a trip that starts at 23:00, so that both fall on
\* the next day
C11_Witness ==
    /\ gen.pc = "done"
    /\ trips[1].start_time = 1380
    /\ \E b \in restBreaks : b.trip = 1 /\ b.break_type = "30_min"
                              /\ DateOf(b.scheduled_start) = 1
    /\ \E b \in restBreaks : b.trip = 1 /\ b.break_type = "10_hour"

\* the duty periods of a log sheet
PeriodsOf(sheet) ==
    { p \in dutyPeriods : p.driver = sheet.driver /\ p.date = sheet.date }

RECURSIVE SumMinutes(_)
\* the sum of (end - start), in minutes, over a set of periods
SumMinutes(ps) ==
    IF ps = {} THEN 0
    ELSE LET p == CHOOSE q \in ps : TRUE
         IN  (p.end_time - p.start_time) + SumMinutes(ps \ {p})

\* minutes of a sheet's periods of one duty status
StatusMinutes(sheet, st) == SumMinutes({ p \in PeriodsOf(sheet) : p.duty_status = st })

\* a stored total (hundredths of an hour) equals a number of minutes
TotalIsMinutes(total, minutes) == total * 60 = minutes * 100

\* C13: each stored per-status total of a generated log sheet equals the sum of
\* (end - start) over the sheet's periods of that status, and total_duty_time
\* equals total_driving_time + total_on_duty_time.
C13_TotalsAreSumsOfPeriods ==
    gen.pc = "done"
       => \A l \in logSheets :
             /\ TotalIsMinutes(l.total_off_duty_time, StatusMinutes(l, "off_duty"))
             /\ TotalIsMinutes(l.total_sleeper_berth_time, StatusMinutes(l, "sleeper_berth"))
             /\ TotalIsMinutes(l.total_driving_time, StatusMinutes(l, "driving"))
             /\ TotalIsMinutes(l.total_on_duty_time, StatusMinutes(l, "on_duty"))
             /\ l.total_duty_time = l.total_driving_time + l.total_on_duty_time

\* the periods partition [midnight, next midnight) of the date
CoversDay(ps, date) ==
    /\ \A p \in ps : /\ p.start_time < p.end_time
                     /\ MidnightOf(date) <= p.start_time
                     /\ p.end_time <= MidnightOf(date + 1)
    /\ \A p, q \in ps : p # q => (p.end_time <= q.start_time \/ q.end_time <= p.start_time)
    /\ \E p \in ps : p.start_time = MidnightOf(date)
    /\ \A p \in ps : \/ p.end_time = MidnightOf(date + 1)
                     \/ \E q \in ps : q.start_time = p.end_time

\* C14: the duty periods of a generated log sheet do not overlap and cover the
\* whole day from midnight to the next midnight without a gap.
C14_PeriodsCoverTheDay ==
    gen.pc = "done" => \A l \in logSheets : CoversDay(PeriodsOf(l), l.date)

----------------------------------------------------------------------------
(* Claims about log sheets and duty periods *)

\* the four per-status totals of a sheet add up to 24.00 h within 0.01 h
SumsToDay(l) ==
    LET total == l.total_off_duty_time + l.total_sleeper_berth_time
                 + l.total_driving_time + l.total_on_duty_time
    IN  total >= 2400 - 1 /\ total <= 2400 + 1

\* C12: every log sheet produced by a start of a trip or by a planning request
\* has its four per-status totals adding up to 24.00 hours within 0.01.
C12_ProducedSheetsSumToDay ==
    [][/\ \A t \in DOMAIN trips :
             StartStep(t) => \A l \in logSheets' \ logSheets : SumsToDay(l)
       /\ \A r \in Slots :
             plan'[r] # plan[r] => \A l \in logSheets' \ logSheets : SumsToDay(l)]_vars

\* the end of the last period of a set
LastEnd(ps) == CHOOSE e \in { p.end_time : p \in ps } : \A p \in ps : p.end_time <= e

\* C15: a duty period is added to a log sheet only when it starts where the
\* sheet's last period ends and ends after it starts; every other addition is
\* refused and leaves the sheet's periods as they were.
C15_PeriodsAppendedInOrder ==
    [][\A l \in logSheets :
          LET before == PeriodsOfSheet(l.driver, l.date)
              after == { p \in dutyPeriods' : p.driver = l.driver /\ p.date = l.date }
          IN  \A p \in after \ before :
                 /\ p.start_time < p.end_time
                 /\ before # {} => p.start_time = LastEnd(before)]_vars

\* what the rules say of a sheet's totals
RuleViolated(l) == l.total_driving_time > DrivingLimit \/ l.total_duty_time > DutyLimit

\* a step of the log-sheet endpoint
EldLogStep == resp' # resp /\ resp'.op \in {"eld_log_create", "eld_log_update"}

\* C16: a request on the log-sheet endpoint never sets or clears hos_violation
\* from its input: a created sheet is flagged only when the rules say so of
\* its totals, and a flag that changes becomes what the rules say.
C16_FlagOnlyFromRules ==
    [][EldLogStep =>
          \A n \in logSheets' :
             IF LogSheetExists(logSheets, n.driver, n.date)
             THEN n.hos_violation # SheetOf(n.driver, n.date).hos_violation
                     => n.hos_violation = RuleViolated(n)
             ELSE n.hos_violation => RuleViolated(n)]_vars

\* C17: a stored sheet with more than 11.00 h of driving has hos_violation set
\* and is not reported compliant.
C17_OverElevenHoursFlagged ==
    \A l \in logSheets :
       l.total_driving_time > DrivingLimit => (l.hos_violation /\ ~HosCompliant(l))

----------------------------------------------------------------------------
(* Claims about the cycle records *)

\* C18: every stored cycle record has remaining_hours = max(0, 70 -
\* total_cycle_hours), and no request changes the total_cycle_hours of a
\* stored record (the code has no recordDay that could).
C18_RemainingFollowsTotal ==
    [][\A c \in DOMAIN cycles' :
          /\ cycles'[c].remaining_hours = RemainingOf(cycles'[c].total_cycle_hours)
          /\ c \in DOMAIN cycles
                => cycles'[c].total_cycle_hours = cycles[c].total_cycle_hours]_vars

----------------------------------------------------------------------------
(* Claims about deleting a trip *)

\* the duty periods of the log sheets of trip t
PeriodsOfTrip(t) ==
    { p \in dutyPeriods :
        \E l \in logSheets : l.trip = t /\ l.driver = p.driver /\ l.date = p.date }

\* C19: when a trip is deleted, no waypoint, fuel stop, rest break or log sheet
\* that referenced it remains, nor a duty period of its log sheets, and the
\* rows of every other trip are as they were.
C19_DeleteCascades ==
    [][\A t \in DOMAIN trips :
          t \notin DOMAIN trips'
             => /\ trips' = [k \in DOMAIN trips \ {t} |-> trips[k]]
                /\ waypoints' = { r \in waypoints : r.trip # t }
                /\ fuelStops' = { r \in fuelStops : r.trip # t }
                /\ restBreaks' = { r \in restBreaks : r.trip # t }
                /\ logSheets' = { r \in logSheets : r.trip # t }
                /\ dutyPeriods' = dutyPeriods \ PeriodsOfTrip(t)]_vars

\* C19 witness: trip 1 was deleted with everything that pointed at it, while
\* trip 2 keeps its waypoints, its log sheet and the sheet's duty period
C19_Witness ==
    /\ resp = Replied("trip_delete", 1, 204)
    /\ DOMAIN trips = {2}
    /\ \E r \in waypoints : r.trip = 2
    /\ \E r \in fuelStops : r.trip = 2
    /\ \E l \in logSheets : l.trip = 2 /\ PeriodsOfSheet(l.driver, l.date) # {}
    /\ \A l \in logSheets : l.trip = 2
    /\ \A p \in dutyPeriods : p.date = 1

----------------------------------------------------------------------------
(* Claims about driver and vehicle identifiers *)

\* no two rows of a table carry the same identifier
UniqueNumbers(table) ==
    \A a, b \in DOMAIN table : table[a] = table[b] => a = b

\* a row other than self carries identifier n
CarriedByAnother(table, n, self) ==
    \E k \in DOMAIN table : k # self /\ table[k] = n

\* C20 (requests handled one at a time): driver_number stays unique among
\* drivers and vehicle_number among vehicles, and a create, or an update of a
\* stored row, that names an identifier another row carries is answered 400
\* and changes no row.
C20_IdentifiersStayUnique ==
    [][/\ UniqueNumbers(driverNumbers) => UniqueNumbers(driverNumbers')
       /\ UniqueNumbers(vehicleNumbers) => UniqueNumbers(vehicleNumbers')
       /\ (  \/ /\ resp'.op = "driver_create"
                 /\ CarriedByAnother(driverNumbers, resp'.number, 0)
              \/ /\ resp'.op = "driver_update"
                 /\ resp'.trip \in DOMAIN driverNumbers
                 /\ CarriedByAnother(driverNumbers, resp'.number, resp'.trip)
              \/ /\ resp'.op = "vehicle_create"
                 /\ CarriedByAnother(vehicleNumbers, resp'.number, 0)
              \/ /\ resp'.op = "vehicle_update"
                 /\ resp'.trip \in DOMAIN vehicleNumbers
                 /\ CarriedByAnother(vehicleNumbers, resp'.number, resp'.trip) )
             => /\ resp'.code = 400
                /\ UNCHANGED <<driverNumbers, vehicleNumbers>>]_vars

\* C20 witness: with rows created and renumbered since the start, an update
\* of a vehicle to another vehicle's number was refused
C20_Witness ==
    /\ resp.op = "vehicle_update" /\ resp.code = 400
    /\ resp.trip \in DOMAIN vehicleNumbers
    /\ CarriedByAnother(vehicleNumbers, resp.number, resp.trip)
    /\ Cardinality(DOMAIN vehicleNumbers) = MaxVehicles
    /\ Cardinality(DOMAIN driverNumbers) > 1
    /\ driverNumbers[1] # InitialDriverNumbers[1]

----------------------------------------------------------------------------
(* Claims about the token layer *)

\* a request passed the token layer in this step
NewRequest == request'.endpoint # "none"

\* C22: a token that was issued and is no longer stored is never stored again;
\* a successful logout leaves the token it was made with unstored; and every
\* request that carries an issued, unstored token is answered 401, whatever
\* logins happened since.
C22_RevokedTokenStaysInvalid ==
    [][/\ \A k \in 1..tokenSeq : ~Stored(tokens, k) => ~Stored(tokens', k)
       /\ (NewRequest /\ resp'.op = "logout" /\ resp'.code = 204)
             => ~Stored(tokens', request'.header)
       /\ (NewRequest /\ request'.header \in 1..tokenSeq
                      /\ ~Stored(tokens, request'.header))
             => resp'.code = 401]_vars

\* C22 witness: before any token could expire, a token is refused that was
\* logged out, while a later login's token is stored
C22_Witness ==
    /\ now = 0
    /\ resp.op = "driver_list" /\ resp.code = 401
    /\ request.header \in 1..tokenSeq
    /\ ~Stored(tokens, request.header)
    /\ \E r \in tokens : r.token > request.header

\* the step is a login answered 200
LoginSucceeded == NewRequest /\ resp'.op = "login" /\ resp'.code = 200

\* C23 as stated: a login's token was never issued before, a login removes no
\* stored token, and every stored (un-revoked) token authenticates.
C23_EveryStoredTokenAuthenticates ==
    [][/\ LoginSucceeded => /\ resp'.token \notin 1..tokenSeq
                            /\ tokens \subseteq tokens'
       /\ \A r \in tokens' : TokenValid(tokens', r.token, now')]_vars

\* C23, amended: a login's token was never issued before; every token that
\* authenticated before the login authenticates after it, as does the new
\* one; and a request to a protected endpoint with a stored, unexpired token
\* is not answered 401.
C23_UnexpiredTokensAuthenticateTogether ==
    [][/\ LoginSucceeded =>
            /\ resp'.token \notin 1..tokenSeq
            /\ TokenValid(tokens', resp'.token, now')
            /\ \A h \in 1..tokenSeq :
                  TokenValid(tokens, h, now) => TokenValid(tokens', h, now')
       /\ (NewRequest /\ request'.endpoint = "drivers"
                      /\ TokenValid(tokens, request'.header, now))
             => resp'.code = 200]_vars

\* C23 witness: a second login of a user whose first token is still valid
C23_Witness ==
    /\ resp.op = "login" /\ resp.code = 200
    /\ \E r1, r2 \in tokens :
          /\ r1.token < r2.token /\ r2.token = resp.token
          /\ r1.user = r2.user
          /\ TokenValid(tokens, r1.token, now) /\ TokenValid(tokens, r2.token, now)

\* the registration names a taken username or email, or its passwords differ
RegistrationRefusable(b) ==
    \/ b.password # b.password_confirm
    \/ b.username \in DOMAIN users
    \/ b.email # NoName /\ \E n \in DOMAIN users : users[n].email = b.email

----------------------------------------------------------------------------
(* Claims about the protected endpoints *)

ProtectedEndpoints ==
    {"drivers", "vehicles", "shippers", "loads", "trips", "plan_trip", "eld_logs",
     "duty_periods", "hos_cycles", "logout"}

\* the step is a request to a protected endpoint that carries no token, or a
\* token that is not stored or has expired
Unauthenticated ==
    /\ NewRequest
    /\ request'.endpoint \in ProtectedEndpoints
    /\ ~TokenValid(tokens, request'.header, now)

\* C21 as stated: a request to a protected endpoint with no token or a token
\* that is not valid is answered 401 and changes no stored record at all.
C21_UnauthenticatedChangesNothing ==
    [][Unauthenticated =>
          /\ resp'.code = 401
          /\ UNCHANGED <<db, ext, users, tokens, tokenSeq, shippers, loads>>]_vars

\* C21, amended: such a request is answered 401 and changes no stored record,
\* except that the expired tokens of the user whose token it carried are
\* deleted; every token that authenticated before authenticates after.
C21_UnauthenticatedChangesOnlyExpiredTokens ==
    [][Unauthenticated =>
          /\ resp'.code = 401
          /\ UNCHANGED <<db, ext, users, tokenSeq, shippers, loads>>
          /\ tokens' \subseteq tokens
          /\ \A r \in tokens \ tokens' :
                /\ Expired(r, now)
                /\ \E q \in tokens : q.token = request'.header /\ q.user = r.user]_vars

\* C21 witness: a request with an expired token was refused after every
\* table the endpoints write had changed
C21_Witness ==
    /\ resp.code = 401
    /\ request.endpoint = "vehicles"
    /\ request.header # NoToken
    /\ ~TokenValid(tokens, request.header, now)
    /\ MaxVehicles \notin DOMAIN vehicleNumbers
    /\ 2 \in DOMAIN driverNumbers
    /\ logSheets # {}
    /\ shippers = {}

----------------------------------------------------------------------------
(* Claims about the trip's cycle hours *)

\* C25: every stored Trip has current_cycle_used_hours within [0, 70],
\* whichever of plan-trip, the trips endpoint (create, update) or the admin
\* form wrote it.
C25_CycleHoursWithinRange ==
    \A t \in DOMAIN trips :
       /\ trips[t].current_cycle_used_hours >= 0
       /\ trips[t].current_cycle_used_hours <= CycleMaxHundredths

\* C25 witness: an update with more than 70 hours was refused on a trip that
\* an earlier update had set to exactly 70
C25_Witness ==
    /\ resp.op = "update_cycle" /\ resp.code = 400
    /\ resp.trip \in DOMAIN trips
    /\ trips[resp.trip].current_cycle_used_hours = CycleMaxHundredths

----------------------------------------------------------------------------
(* Claims about start_trip and complete_trip *)

\* C26: start_trip is all-or-nothing: a start that creates no log sheet leaves
\* the trip's status and start_time as they were before the request.
C26_StartTripAllOrNothing ==
    [][\A t \in DOMAIN trips :
          (StartStep(t) /\ logSheets' = logSheets)
             => /\ trips'[t].status = trips[t].status
                /\ trips'[t].start_time = trips[t].start_time]_vars

\* the start_trip requests on trip t that have been answered
StartsAnswered(t) ==
    {r \in Slots : plan[r] # Idle /\ plan[r].pc = "done" /\ plan[r].trip = t
                   /\ plan[r].code # 404}

\* C27: when two start_trip requests on the same planned trip have both been
\* answered, at most one was answered 200 and exactly one log sheet was
\* created for the trip, whatever the order of their steps.
C27_OneStartWins ==
    \A t \in DOMAIN trips :
       StartsAnswered(t) = Slots
          => /\ Cardinality({r \in Slots : plan[r].code = 200}) <= 1
             /\ Cardinality({l \in logSheets : l.trip = t}) = 1

\* C28: after every step a Trip has actual_end_time set exactly when its
\* status is completed; and a step of complete_trip changes nothing but the
\* status and actual_end_time of its trip (start_time, references, the other
\* trips and the child tables stay as they were).
C28_EndTimeIffCompleted ==
    [][/\ \A t \in DOMAIN trips' :
             (trips'[t].actual_end_time # NoTime) <=> (trips'[t].status = "completed")
       /\ \A t \in DOMAIN trips :
             CompleteStep(t)
                => /\ DOMAIN trips' = DOMAIN trips
                   /\ \A u \in DOMAIN trips \ {t} : trips'[u] = trips[u]
                   /\ [trips'[t] EXCEPT !.status = trips[t].status,
                                        !.actual_end_time = trips[t].actual_end_time]
                         = trips[t]
                   /\ UNCHANGED <<logSheets, waypoints, fuelStops, restBreaks,
                                  dutyPeriods>>]_vars

----------------------------------------------------------------------------
(* Claims about the serializer's fuel-stop count *)

\* C29: once the planner has generated the fuel stops of a trip, the
\* serializer's estimated_fuel_stops_count equals the number of FuelStop rows
\* of the trip, and no two of those rows have the same miles_from_start.
C29_CountMatchesGeneratedStops ==
    LET made == { f \in fuelStops : f.trip = 1 }
    IN  gen.pc \in {"rest_breaks", "log_sheets", "done"}
           => /\ EstimatedFuelStopsCount(trips[1]) = Cardinality(made)
              /\ \A f, g \in made :
                    f.miles_from_start = g.miles_from_start => f = g

----------------------------------------------------------------------------
(* Claims about deleting what a Trip refers to *)

\* the step deletes the Vehicle / Load / Driver row with this key
VehicleGone(v) == v \in DOMAIN vehicleNumbers /\ v \notin DOMAIN vehicleNumbers'
LoadGone(l) == l \in DOMAIN loads /\ l \notin DOMAIN loads'
DriverGone(d) == d \in DOMAIN driverNumbers /\ d \notin DOMAIN driverNumbers'

\* the child records of trip t
ChildrenOf(t) ==
    << { w \in waypoints : w.trip = t }, { f \in fuelStops : f.trip = t },
       { b \in restBreaks : b.trip = t }, { l \in logSheets : l.trip = t } >>

\* C30: a step that deletes the Vehicle a trip names as its trailer (and not
\* as its tractor), or the Load it names, leaves the trip and its child
\* records stored, with that reference null and every other column as it was;
\* a step that deletes the trip's Driver or its tractor Vehicle deletes the
\* trip and all its waypoints, fuel stops, rest breaks and log sheets.
C30_DeleteNullsOrCascades ==
    [][\A t \in DOMAIN trips :
          /\ (VehicleGone(trips[t].trailer) /\ ~VehicleGone(trips[t].tractor))
                => /\ t \in DOMAIN trips'
                   /\ trips'[t] = [trips[t] EXCEPT !.trailer = NoRef]
                   /\ ChildrenOf(t)' = ChildrenOf(t)
          /\ LoadGone(trips[t].load)
                => /\ t \in DOMAIN trips'
                   /\ trips'[t] = [trips[t] EXCEPT !.load = NoRef]
                   /\ ChildrenOf(t)' = ChildrenOf(t)
          /\ (DriverGone(trips[t].driver) \/ VehicleGone(trips[t].tractor))
                => /\ t \notin DOMAIN trips'
                   /\ ChildrenOf(t)' = <<{}, {}, {}, {}>>]_vars

\* C30 witness: a trailer has been deleted and a started trip is stored with
\* its log sheet, its load still named and no trailer
C30_Witness ==
    /\ resp.op = "vehicle_delete" /\ resp.code = 204
    /\ VehicleTypeOf[resp.trip] = "trailer"
    /\ \E t \in DOMAIN trips :
          /\ trips[t].trailer = NoRef /\ trips[t].load # NoRef
          /\ trips[t].status = "in_progress"
          /\ \E l \in logSheets : l.trip = t

====
